---- MODULE Spec2Model ----
(***************************************************************************)
(* Control logic of the aiida-lsmo work chains.                            *)
(*                                                                         *)
(* Part 1: Cp2kBindingEnergyWorkChain (workchains/cp2k_binding_energy.py). *)
(* One work chain instance; the outline                                    *)
(*   setup, while_(should_run_geo_opt)(run_geo_opt, inspect...),           *)
(*   run_bsse, results                                                     *)
(* is followed by the program counter pc.  A submitted Cp2kBaseWorkChain   *)
(* is an awaitable; the engine runs the next outline step only after the   *)
(* awaitable resolved and was appended to ctx.stages.                      *)
(*                                                                         *)
(* Configurations (nested dictionaries) are modelled as maps from a fixed  *)
(* set of leaf paths to values, Absent marking a path that is not set.     *)
(*                                                                         *)
(* Part 2: IsothermWorkChain (workchains/isotherm.py), specification       *)
(* SpecIso, and its calcfunction choose_pressure_points applied to a wide  *)
(* range of arguments, specification SpecSampler.                          *)
(*                                                                         *)
(* Each specification runs one work chain; the variables of the other      *)
(* parts keep their idle value.                                            *)
(***************************************************************************)
EXTENDS Integers, Sequences, FiniteSets, TLC

\* Highest ladder index (settings_0 .. settings_MaxIdx) that is enumerated.
MaxIdx == 2

(***************************************************************************)
(* Configurations                                                          *)
(***************************************************************************)
Absent == "absent"

Keys == {"RUN_TYPE", "SCF_GUESS", "MAX_ITER", "FIXED_ATOMS", "MULTIPLICITY",
         "CUTOFF", "EPS_SCF", "BSSE"}

EmptyDict == [k \in Keys |-> Absent]

\* aiida_lsmo.utils.dict_merge(dct, merge_dct): every leaf set by merge_dct
\* overwrites the leaf of dct, the other leaves of dct are kept.
dict_merge(dct, merge_dct) ==
    [k \in Keys |-> IF merge_dct[k] # Absent THEN merge_dct[k] ELSE dct[k]]

\* 'settings_{}'.format(idx)
SettingsTag(idx) == "settings_" \o ToString(idx)

\* The content of profile settings_i of the protocol: every profile sets
\* CUTOFF, the even ones also set EPS_SCF.
Profile(i) ==
    [k \in Keys |->
        CASE k = "CUTOFF" -> SettingsTag(i)
          [] k = "EPS_SCF" /\ i % 2 = 0 -> SettingsTag(i)
          [] OTHER -> Absent]

\* bandgap_thr_ev of the protocol, in meV.
BandgapThrMeV == 500

\* HARTREE2EV = 27.2114, times 10^4.
HARTREE2EV_E4 == 272114

\* The protocols load_isotherm_protocol can return: any set of profiles
\* settings_i, with the band gap threshold.
Protocols ==
    { [settings |-> [i \in S |-> Profile(i)], bandgap_thr_ev |-> BandgapThrMeV] :
        S \in SUBSET (0..MaxIdx) }

\* inputs.cp2k_base.cp2k.parameters: not given, or a dictionary of overrides.
NoParameters == EmptyDict

UserParameters ==
    { NoParameters,
      [EmptyDict EXCEPT !["MAX_ITER"] = "user", !["CUTOFF"] = "user"] }

\* get_initial_magnetization(...)['cp2k_param']
InitialMagnetizationParam == [EmptyDict EXCEPT !["MULTIPLICITY"] = "mag"]

\* The dictionary merged at the end of setup.
SetupDict ==
    [EmptyDict EXCEPT !["RUN_TYPE"] = "GEO_OPT", !["SCF_GUESS"] = "ATOMIC",
                      !["MAX_ITER"] = "200", !["FIXED_ATOMS"] = "1..natoms"]

\* get_bsse_section(...)
get_bsse_section == [EmptyDict EXCEPT !["BSSE"] = "bsse_section"]

(***************************************************************************)
(* Results of the external jobs                                            *)
(***************************************************************************)
\* Band gaps (the smaller of the two spins) in milli-Hartree.
GapValues == {0 - 4, 18, 19}

NoOutputGeo == [output_parameters |-> FALSE, scf_converged |-> FALSE, bandgap_au |-> 0]

\* What a geometry optimisation can resolve to: no output_parameters at
\* all, or output_parameters with the SCF flag of the last step and a gap.
GeoOutcomes ==
    {NoOutputGeo} \cup
    { [output_parameters |-> TRUE, scf_converged |-> c, bandgap_au |-> g] :
        c \in BOOLEAN, g \in GapValues }

\* What a BSSE calculation can resolve to ("binding_energy_dispersion" may miss).
BsseOutcomes ==
    { [output_parameters |-> FALSE, dispersion |-> FALSE],
      [output_parameters |-> TRUE, dispersion |-> FALSE],
      [output_parameters |-> TRUE, dispersion |-> TRUE] }

\* Exit codes of the work chain.
ERROR_MISSING_INITIAL_SETTINGS == 901
ERROR_NO_MORE_SETTINGS == 902
ERROR_PARSING_OUTPUT == 903

(***************************************************************************)
(* State                                                                   *)
(***************************************************************************)
VARIABLES
    pc,                     \* the outline step to run next
    status,                 \* "running", "finished" or "excepted"
    exit_code,              \* exit status: 0, or one of the exit codes
    protocol,               \* ctx.protocol
    starting_settings_idx,  \* inputs.starting_settings_idx
    parameters,             \* inputs.cp2k_base.cp2k.parameters
    settings_ok,            \* ctx.settings_ok
    settings_idx,           \* ctx.settings_idx
    settings_tag,           \* ctx.settings_tag, as the index in it
    cp2k_param,             \* ctx.cp2k_param
    awaitables,             \* submitted work chains that did not resolve yet
    stages,                 \* ctx.stages
    outputs,                \* the outputs of the work chain
    reports                 \* the messages of self.report, in order

\* The variables of Cp2kBindingEnergyWorkChain.
beVars == <<pc, status, exit_code, protocol, starting_settings_idx, parameters,
            settings_ok, settings_idx, settings_tag, cp2k_param, awaitables,
            stages, outputs, reports>>

\* IsothermWorkChain
VARIABLES
    iso_pc,          \* the outline step to run next
    iso_status,      \* "running", "finished" or "excepted"
    iso_inputs,      \* inputs.parameters and inputs.geometric
    ctx,             \* self.ctx
    iso_awaitables,  \* submitted calculations that did not resolve yet
    iso_outputs,     \* the outputs of the work chain
    iso_called,      \* the calculations submitted so far (the CALL links)
    iso_exception    \* the exception that ended the work chain, "" if none

isoVars == <<iso_pc, iso_status, iso_inputs, ctx, iso_awaitables, iso_outputs, iso_called,
             iso_exception>>

\* A calcfunction called on its own
VARIABLES
    cpp_args,        \* the arguments of the call
    cpp_result       \* the returned value, once the function was called

cppVars == <<cpp_args, cpp_result>>

\* MulticompAdsDesWorkChain
VARIABLES
    mc_pc,           \* the outline step to run next
    mc_status,       \* "running", "finished" or "excepted"
    mc_inputs,       \* inputs.structure (given or not), conditions, parameters
    mc_ctx,          \* self.ctx
    mc_awaitables,   \* submitted calculations that did not resolve yet
    mc_outputs,      \* the outputs of the work chain
    mc_called,       \* the calculations submitted so far (the CALL links)
    mc_exception     \* the exception that ended the work chain, "" if none

mcVars == <<mc_pc, mc_status, mc_inputs, mc_ctx, mc_awaitables, mc_outputs, mc_called,
            mc_exception>>

vars == <<beVars, isoVars, cppVars, mcVars>>

\* The idle values of the variables of a part that does not run.
NoNode == [exists |-> FALSE]

IsoIdle ==
    /\ iso_pc = "idle"
    /\ iso_status = "idle"
    /\ iso_inputs = NoNode
    /\ ctx = NoNode
    /\ iso_awaitables = <<>>
    /\ iso_outputs = NoNode
    /\ iso_called = <<>>
    /\ iso_exception = ""

CppIdle ==
    /\ cpp_args = NoNode
    /\ cpp_result = NoNode

McIdle ==
    /\ mc_pc = "idle"
    /\ mc_status = "idle"
    /\ mc_inputs = NoNode
    /\ mc_ctx = NoNode
    /\ mc_awaitables = {}
    /\ mc_outputs = NoNode
    /\ mc_called = <<>>
    /\ mc_exception = ""

\* The attributes of ctx that the steps of the work chain assign.
CtxKeys == {"protocol", "settings_ok", "settings_idx", "settings_tag", "system",
            "natoms_structure", "natoms_molecule", "cp2k_param", "base_inp",
            "stages"}

NoOutputs == [output_parameters |-> {}, geo_from |-> 0, bsse_from |-> 0,
              loaded_structure |-> 0, remote_folder |-> 0, loaded_molecule |-> 0]

Init ==
    /\ pc = "setup"
    /\ status = "running"
    /\ exit_code = 0
    /\ protocol \in Protocols
    /\ starting_settings_idx \in 0..MaxIdx
    /\ parameters \in UserParameters
    /\ settings_ok = FALSE
    /\ settings_idx = 0
    /\ settings_tag = 0
    /\ cp2k_param = EmptyDict
    /\ awaitables = <<>>
    /\ stages = <<>>
    /\ outputs = NoOutputs
    /\ reports = <<>>
    /\ IsoIdle
    /\ CppIdle
    /\ McIdle

(***************************************************************************)
(* Helpers of the steps                                                    *)
(***************************************************************************)
\* The work chain stopped: it returned an exit code, excepted or completed.
Terminated == status # "running"

\* self.submit(Cp2kBaseWorkChain, **base_inp): the submitted inputs.
\* structure is 0 for ctx.system, or the index in ctx.stages of the stage
\* whose output_structure is used.
Submission(label, param, structure) ==
    [label |-> label, parameters |-> param, structure |-> structure]

\* A resolved work chain as it is appended to ctx.stages; out_label is the
\* label of its output_parameters node.
Resolved(sub, outcome) ==
    [label |-> sub.label, parameters |-> sub.parameters, structure |-> sub.structure,
     outputs |-> outcome, out_label |-> ""]

\* aiida_lsmo.utils.cp2k_utils.ot_has_small_bandgap: the band gap, converted
\* from Hartree to eV, is below the threshold.  Both sides are in 10^-4 meV.
ot_has_small_bandgap(cp2k_input, cp2k_output, bandgap_thr_ev) ==
    cp2k_output.bandgap_au * HARTREE2EV_E4 < bandgap_thr_ev * 10000

\* The loop of setup: settings_1 .. settings_s are merged in turn onto the
\* copy of settings_0; the first missing one stops the loop.
RECURSIVE SetupLoop(_, _, _, _)
SetupLoop(prot, s, idx, param) ==
    IF s > idx
    THEN IF (idx + 1) \in DOMAIN prot.settings
         THEN SetupLoop(prot, s, idx + 1, dict_merge(param, prot.settings[idx + 1]))
         ELSE [missing |-> TRUE, idx |-> idx + 1, param |-> param]
    ELSE [missing |-> FALSE, idx |-> idx, param |-> param]

\* Variant of JudgeSettings that skips the test of the SCF flag.
JudgeSettings_no_scf_test(param, cp2k_out, idx, bandgap_thr_ev) ==
    IF ot_has_small_bandgap(param, cp2k_out, bandgap_thr_ev)
    THEN [settings_ok |-> FALSE, settings_idx |-> idx + 1,
          reports |-> <<"Bandgaps", "BAD SETTINGS: band gap is <">>]
    ELSE [settings_ok |-> TRUE, settings_idx |-> idx,
          reports |-> <<"Bandgaps">>]

\* Variant of JudgeSettings that tests the band gap after a failed SCF too
\* and counts each failed criterion.
JudgeSettings_both_tests(param, cp2k_out, idx, bandgap_thr_ev) ==
    LET bad_scf == ~cp2k_out.scf_converged
        bad_gap == ot_has_small_bandgap(param, cp2k_out, bandgap_thr_ev)
    IN [settings_ok |-> ~(bad_scf \/ bad_gap),
        settings_idx |-> idx + (IF bad_scf THEN 1 ELSE 0) + (IF bad_gap THEN 1 ELSE 0),
        reports |-> (IF bad_scf THEN <<"BAD SETTINGS: the SCF did not converge">>
                                ELSE <<"Bandgaps">>)
                    \o (IF bad_gap THEN <<"BAD SETTINGS: band gap is <">> ELSE <<>>)]

\* The judgment of inspect_and_update_settings_geo_opt on the output of the
\* last stage, for outputs that have output_parameters: the new settings_ok,
\* the new settings_idx and the messages reported.
JudgeSettings(param, cp2k_out, idx, bandgap_thr_ev) ==
    IF ~cp2k_out.scf_converged
    THEN [settings_ok |-> FALSE, settings_idx |-> idx + 1,
          reports |-> <<"BAD SETTINGS: the SCF did not converge">>]
    ELSE IF ot_has_small_bandgap(param, cp2k_out, bandgap_thr_ev)
         THEN [settings_ok |-> FALSE, settings_idx |-> idx + 1,
               reports |-> <<"Bandgaps", "BAD SETTINGS: band gap is <">>]
         ELSE [settings_ok |-> TRUE, settings_idx |-> idx,
               reports |-> <<"Bandgaps">>]

\* get_output_parameters: the keys of the output Dict, from the output of
\* the last geometry optimisation and of the BSSE calculation.
get_output_parameters(final_geo_opt, bsse) ==
    {"motion_step_info", "motion_opt_converged", "binding_energy_raw",
     "binding_energy_corr", "binding_energy_bsse", "binding_energy_unit"}
    \cup (IF bsse.dispersion THEN {"binding_energy_dispersion"} ELSE {})

(***************************************************************************)
(* Steps of the outline                                                    *)
(***************************************************************************)
\* Variant of setup without the deepcopy of settings_0: the configuration is
\* merged in place into the profile that the protocol holds.
setup_without_copy ==
    /\ pc = "setup"
    /\ status = "running"
    /\ settings_ok' = FALSE
    /\ IF 0 \notin DOMAIN protocol.settings
       THEN \* protocol['settings_0'] raises KeyError
            /\ status' = "excepted"
            /\ pc' = "end"
            /\ settings_idx' = 0
            /\ settings_tag' = 0
            /\ UNCHANGED <<cp2k_param, exit_code>>
       ELSE LET r == SetupLoop(protocol, starting_settings_idx, 0, protocol.settings[0])
            IN /\ settings_idx' = r.idx
               /\ settings_tag' = r.idx
               /\ IF r.missing
                  THEN /\ cp2k_param' = r.param
                       /\ exit_code' = ERROR_MISSING_INITIAL_SETTINGS
                       /\ status' = "finished"
                       /\ pc' = "end"
                  ELSE /\ cp2k_param' = dict_merge(dict_merge(r.param, InitialMagnetizationParam),
                                                   SetupDict)
                       /\ pc' = "should_run_geo_opt"
                       /\ UNCHANGED <<exit_code, status>>
    /\ protocol' = IF 0 \in DOMAIN protocol.settings
                   THEN [protocol EXCEPT !.settings[0] = cp2k_param']
                   ELSE protocol
    /\ UNCHANGED <<starting_settings_idx, parameters, awaitables, stages,
                   outputs, reports>>
    /\ UNCHANGED <<isoVars, cppVars, mcVars>>

\* setup.  protocol already holds the protocol_modify overrides.
setup ==
    /\ pc = "setup"
    /\ status = "running"
    /\ settings_ok' = FALSE
    /\ IF 0 \notin DOMAIN protocol.settings
       THEN \* protocol['settings_0'] raises KeyError
            /\ status' = "excepted"
            /\ pc' = "end"
            /\ settings_idx' = 0
            /\ settings_tag' = 0
            /\ UNCHANGED <<cp2k_param, exit_code>>
       ELSE LET r == SetupLoop(protocol, starting_settings_idx, 0, protocol.settings[0])
            IN /\ settings_idx' = r.idx
               /\ settings_tag' = r.idx
               /\ IF r.missing
                  THEN /\ cp2k_param' = r.param
                       /\ exit_code' = ERROR_MISSING_INITIAL_SETTINGS
                       /\ status' = "finished"
                       /\ pc' = "end"
                  ELSE /\ cp2k_param' = dict_merge(dict_merge(r.param, InitialMagnetizationParam),
                                                   SetupDict)
                       /\ pc' = "should_run_geo_opt"
                       /\ UNCHANGED <<exit_code, status>>
    /\ UNCHANGED <<protocol, starting_settings_idx, parameters, awaitables, stages,
                   outputs, reports>>
    /\ UNCHANGED <<isoVars, cppVars, mcVars>>

\* while_(should_run_geo_opt): run the loop body, or leave the loop.
should_run_geo_opt ==
    /\ pc = "should_run_geo_opt"
    /\ status = "running"
    /\ pc' = IF ~settings_ok THEN "run_geo_opt" ELSE "run_bsse"
    /\ UNCHANGED <<status, exit_code, protocol, starting_settings_idx, parameters,
                   settings_ok, settings_idx, settings_tag, cp2k_param, awaitables,
                   stages, outputs, reports>>
    /\ UNCHANGED <<isoVars, cppVars, mcVars>>

\* Variant of run_geo_opt that does not wait for the submitted work chain
\* to be inspected before the loop condition is evaluated again.
run_geo_opt_no_wait ==
    /\ pc = "run_geo_opt"
    /\ status = "running"
    /\ LET param == IF parameters # NoParameters
                    THEN dict_merge(cp2k_param, parameters)
                    ELSE cp2k_param
       IN /\ cp2k_param' = param
          /\ awaitables' = Append(awaitables, Submission("geo_opt_molecule", param, 0))
    /\ reports' = Append(reports, "Optimize molecule position in the structure.")
    /\ pc' = "should_run_geo_opt"
    /\ UNCHANGED <<status, exit_code, protocol, starting_settings_idx, parameters,
                   settings_ok, settings_idx, settings_tag, stages, outputs>>
    /\ UNCHANGED <<isoVars, cppVars, mcVars>>

\* Variant of run_geo_opt that submits the generated configuration without
\* merging the user's parameters.
run_geo_opt_no_user_merge ==
    /\ pc = "run_geo_opt"
    /\ status = "running"
    /\ LET param == cp2k_param
       IN /\ cp2k_param' = param
          /\ awaitables' = Append(awaitables, Submission("geo_opt_molecule", param, 0))
    /\ reports' = Append(reports, "Optimize molecule position in the structure.")
    /\ pc' = "inspect_and_update_settings_geo_opt"
    /\ UNCHANGED <<status, exit_code, protocol, starting_settings_idx, parameters,
                   settings_ok, settings_idx, settings_tag, stages, outputs>>
    /\ UNCHANGED <<isoVars, cppVars, mcVars>>

\* run_geo_opt: merge the user's parameters, submit, wait for the result.
run_geo_opt ==
    /\ pc = "run_geo_opt"
    /\ status = "running"
    /\ LET param == IF parameters # NoParameters
                    THEN dict_merge(cp2k_param, parameters)
                    ELSE cp2k_param
       IN /\ cp2k_param' = param
          /\ awaitables' = Append(awaitables, Submission("geo_opt_molecule", param, 0))
    /\ reports' = Append(reports, "Optimize molecule position in the structure.")
    /\ pc' = "inspect_and_update_settings_geo_opt"
    /\ UNCHANGED <<status, exit_code, protocol, starting_settings_idx, parameters,
                   settings_ok, settings_idx, settings_tag, stages, outputs>>
    /\ UNCHANGED <<isoVars, cppVars, mcVars>>

\* The submitted work chain ends, with any of its possible results, and is
\* appended to ctx.stages (ToContext(stages=append_(running_base))).
resolve ==
    /\ status = "running"
    /\ awaitables # <<>>
    /\ LET sub == Head(awaitables)
       IN \E outcome \in (IF sub.label = "bsse" THEN BsseOutcomes ELSE GeoOutcomes) :
            stages' = Append(stages, Resolved(sub, outcome))
    /\ awaitables' = Tail(awaitables)
    /\ UNCHANGED <<pc, status, exit_code, protocol, starting_settings_idx, parameters,
                   settings_ok, settings_idx, settings_tag, cp2k_param, outputs,
                   reports>>
    /\ UNCHANGED <<isoVars, cppVars, mcVars>>

\* Variant of ParseFailure that treats the missing output as bad settings
\* and goes on with the next index.
ParseFailure_retried(param, idx, tag) ==
    [settings_ok |-> FALSE, settings_idx |-> idx + 1, settings_tag |-> tag,
     cp2k_param |-> param, discard |-> FALSE, exit_code |-> 0,
     status |-> "running", reports |-> <<"ERROR_PARSING_OUTPUT">>]

\* inspect_and_update_settings_geo_opt, first part: the last stage has no
\* output_parameters.  settings_ok was set to True before the test.
ParseFailure(param, idx, tag) ==
    [settings_ok |-> TRUE, settings_idx |-> idx, settings_tag |-> tag,
     cp2k_param |-> param, discard |-> FALSE, exit_code |-> ERROR_PARSING_OUTPUT,
     status |-> "finished", reports |-> <<"ERROR_PARSING_OUTPUT">>]

\* inspect_and_update_settings_geo_opt, last part, for a judgment j: when the
\* settings are not ok the output is labelled as discarded and the next
\* profile is looked up and merged.  The label reads ctx.stage_tag, which
\* raises AttributeError when no step assigned it.
UpdateSettings(j, param, tag, prot) ==
    IF j.settings_ok
    THEN [settings_ok |-> TRUE, settings_idx |-> j.settings_idx, settings_tag |-> tag,
          cp2k_param |-> param, discard |-> FALSE, exit_code |-> 0,
          status |-> "running", reports |-> j.reports]
    ELSE IF "stage_tag" \notin CtxKeys
    THEN [settings_ok |-> FALSE, settings_idx |-> j.settings_idx, settings_tag |-> tag,
          cp2k_param |-> param, discard |-> FALSE, exit_code |-> 0,
          status |-> "excepted", reports |-> j.reports]
    ELSE IF j.settings_idx \in DOMAIN prot.settings
    THEN [settings_ok |-> FALSE, settings_idx |-> j.settings_idx,
          settings_tag |-> j.settings_idx,
          cp2k_param |-> dict_merge(param, prot.settings[j.settings_idx]),
          discard |-> TRUE, exit_code |-> 0, status |-> "running",
          reports |-> j.reports]
    ELSE [settings_ok |-> FALSE, settings_idx |-> j.settings_idx, settings_tag |-> tag,
          cp2k_param |-> param, discard |-> TRUE, exit_code |-> ERROR_NO_MORE_SETTINGS,
          status |-> "finished", reports |-> j.reports]

\* inspect_and_update_settings_geo_opt as a function of the output of the
\* last stage and of the context.
Inspect(cp2k_out, param, idx, tag, prot) ==
    IF ~cp2k_out.output_parameters
    THEN ParseFailure(param, idx, tag)
    ELSE UpdateSettings(JudgeSettings(param, cp2k_out, idx, prot.bandgap_thr_ev),
                        param, tag, prot)

\* '{}_{}_discard'.format(ctx.stage_tag, ctx.settings_tag)
DiscardLabel(tag) == "stage_tag_" \o SettingsTag(tag) \o "_discard"

\* inspect_and_update_settings_geo_opt
inspect_and_update_settings_geo_opt ==
    /\ pc = "inspect_and_update_settings_geo_opt"
    /\ status = "running"
    /\ awaitables = <<>>
    /\ LET r == Inspect(stages[Len(stages)].outputs, cp2k_param, settings_idx,
                        settings_tag, protocol)
       IN /\ settings_ok' = r.settings_ok
          /\ settings_idx' = r.settings_idx
          /\ settings_tag' = r.settings_tag
          /\ cp2k_param' = r.cp2k_param
          /\ exit_code' = r.exit_code
          /\ status' = r.status
          /\ reports' = reports \o r.reports
          /\ stages' = IF r.discard
                       THEN [stages EXCEPT ![Len(stages)].out_label =
                                               DiscardLabel(settings_tag)]
                       ELSE stages
          /\ pc' = IF r.status = "running" THEN "should_run_geo_opt" ELSE "end"
    /\ UNCHANGED <<protocol, starting_settings_idx, parameters, awaitables, outputs>>
    /\ UNCHANGED <<isoVars, cppVars, mcVars>>

\* Variant of run_bsse that submits ctx.system, the structure before the
\* geometry optimisation.
run_bsse_initial_structure ==
    /\ pc = "run_bsse"
    /\ status = "running"
    /\ LET p1 == dict_merge([cp2k_param EXCEPT !["RUN_TYPE"] = "BSSE"], get_bsse_section)
           param == IF parameters # NoParameters THEN dict_merge(p1, parameters) ELSE p1
       IN /\ cp2k_param' = param
          /\ awaitables' = Append(awaitables, Submission("bsse", param, 0))
    /\ reports' = Append(reports, "Run BSSE calculation to compute corrected binding energy.")
    /\ pc' = "results"
    /\ UNCHANGED <<status, exit_code, protocol, starting_settings_idx, parameters,
                   settings_ok, settings_idx, settings_tag, stages, outputs>>
    /\ UNCHANGED <<isoVars, cppVars, mcVars>>

\* run_bsse: the structure is the output_structure of the last stage.
run_bsse ==
    /\ pc = "run_bsse"
    /\ status = "running"
    /\ LET p1 == dict_merge([cp2k_param EXCEPT !["RUN_TYPE"] = "BSSE"], get_bsse_section)
           param == IF parameters # NoParameters THEN dict_merge(p1, parameters) ELSE p1
       IN /\ cp2k_param' = param
          /\ awaitables' = Append(awaitables, Submission("bsse", param, Len(stages)))
    /\ reports' = Append(reports, "Run BSSE calculation to compute corrected binding energy.")
    /\ pc' = "results"
    /\ UNCHANGED <<status, exit_code, protocol, starting_settings_idx, parameters,
                   settings_ok, settings_idx, settings_tag, stages, outputs>>
    /\ UNCHANGED <<isoVars, cppVars, mcVars>>

\* results: outputs from stages[-2] (geometry) and stages[-1] (BSSE).
results ==
    /\ pc = "results"
    /\ status = "running"
    /\ awaitables = <<>>
    /\ LET n == Len(stages)
       IN IF ~stages[n].outputs.output_parameters
          THEN \* stages[-1].outputs.output_parameters does not exist
               /\ status' = "excepted"
               /\ outputs' = [outputs EXCEPT !.remote_folder = n - 1]
               /\ UNCHANGED reports
          ELSE /\ outputs' = [output_parameters |->
                                  get_output_parameters(stages[n - 1].outputs,
                                                        stages[n].outputs),
                              geo_from |-> n - 1,
                              bsse_from |-> n,
                              loaded_structure |-> n - 1,
                              remote_folder |-> n - 1,
                              loaded_molecule |-> n - 1]
               /\ reports' = Append(reports, "Completed!")
               /\ status' = "finished"
    /\ pc' = "end"
    /\ UNCHANGED <<exit_code, protocol, starting_settings_idx, parameters, settings_ok,
                   settings_idx, settings_tag, cp2k_param, awaitables, stages>>
    /\ UNCHANGED <<isoVars, cppVars, mcVars>>

Next ==
    \/ setup
    \/ should_run_geo_opt
    \/ run_geo_opt
    \/ resolve
    \/ inspect_and_update_settings_geo_opt
    \/ run_bsse
    \/ results

Spec == Init /\ [][Next]_vars

(***************************************************************************)
(* Vocabulary of the properties                                            *)
(***************************************************************************)
GeoLabel == "geo_opt_molecule"
BsseLabel == "bsse"

\* Number of entries of the sequence s that carry the label.
CountLabel(s, label) == Cardinality({i \in DOMAIN s : s[i].label = label})

InFlight(label) == CountLabel(awaitables, label)
NumResolved(label) == CountLabel(stages, label)
NumSubmitted(label) == NumResolved(label) + InFlight(label)

LastStage == stages[Len(stages)]

\* The band gap in eV is below bandgap_thr_ev (both sides in 10^-4 meV).
GapBelowMinimum(out) == out.bandgap_au * HARTREE2EV_E4 < protocol.bandgap_thr_ev * 10000

\* The three verdicts on the result of a geometry attempt.
IsFatal(out) == ~out.output_parameters
IsRetryEscalate(out) ==
    out.output_parameters /\ (~out.scf_converged \/ GapBelowMinimum(out))
IsAccept(out) ==
    out.output_parameters /\ out.scf_converged /\ ~GapBelowMinimum(out)

\* The last resolved stage is a geometry attempt and it has been inspected.
JustInspected ==
    /\ pc \in {"should_run_geo_opt", "end"}
    /\ awaitables = <<>>
    /\ stages # <<>>
    /\ LastStage.label = GeoLabel

\* Number of inspections made so far: each one reports exactly one of these.
NumInspected ==
    Cardinality({i \in DOMAIN reports :
        reports[i] \in {"ERROR_PARSING_OUTPUT", "BAD SETTINGS: the SCF did not converge",
                        "Bandgaps"}})

\* The band gap was reported (and tested) by the last inspection.
BandgapTested ==
    \E i \in DOMAIN reports :
        /\ reports[i] = "Bandgaps"
        /\ \A j \in DOMAIN reports :
              j > i => reports[j] # "Optimize molecule position in the structure."

\* The ladder holds exactly settings_0 .. settings_n.
LadderIs(n) == DOMAIN protocol.settings = 0..n

(***************************************************************************)
(* Properties                                                              *)
(***************************************************************************)
\* C1: with a ladder settings_0..settings_N and a starting index s <= N, a
\* run in which every geometry attempt is judged RetryEscalate ends with
\* ERROR_NO_MORE_SETTINGS after exactly N-s+1 geometry submissions and
\* without a BSSE submission.
C1_LadderExhaustion ==
    \A n \in 0..MaxIdx :
        ( /\ LadderIs(n)
          /\ starting_settings_idx <= n
          /\ Terminated
          /\ \A i \in DOMAIN stages :
                stages[i].label = GeoLabel => IsRetryEscalate(stages[i].outputs) )
        => ( /\ exit_code = ERROR_NO_MORE_SETTINGS
             /\ NumSubmitted(GeoLabel) = n - starting_settings_idx + 1
             /\ NumSubmitted(BsseLabel) = 0 )

\* C2: started at index 0 with settings_0 and settings_1, when the first
\* attempt does not converge and the second converges with a band gap above
\* the threshold, the run makes exactly two geometry submissions and one
\* BSSE submission, ends without error code and emits the record with the
\* convergence field and the binding energies.
C2_ScenarioA ==
    ( /\ starting_settings_idx = 0
      /\ {0, 1} \subseteq DOMAIN protocol.settings
      /\ Terminated
      /\ stages # <<>>
      /\ stages[1].outputs.output_parameters
      /\ ~stages[1].outputs.scf_converged
      /\ \A i \in DOMAIN stages :
            (i > 1 /\ stages[i].label = GeoLabel) => IsAccept(stages[i].outputs)
      /\ \A i \in DOMAIN stages :
            stages[i].label = BsseLabel => stages[i].outputs.output_parameters )
    => ( /\ NumSubmitted(GeoLabel) = 2
         /\ NumSubmitted(BsseLabel) = 1
         /\ status = "finished"
         /\ exit_code = 0
         /\ {"motion_opt_converged", "binding_energy_raw", "binding_energy_corr",
             "binding_energy_bsse"} \subseteq outputs.output_parameters )

\* C3: after the inspection of a geometry attempt the verdict is Fatal
\* (ERROR_PARSING_OUTPUT) exactly when the attempt has no output_parameters;
\* otherwise settings_ok is false exactly when the last SCF did not converge
\* or it converged with a band gap below bandgap_thr_ev; otherwise the
\* attempt is accepted.  The band gap is tested only when the SCF converged.
C3_Verdict ==
    JustInspected =>
        LET out == LastStage.outputs
        IN /\ (exit_code = ERROR_PARSING_OUTPUT) <=> IsFatal(out)
           /\ ~IsFatal(out) =>
                 (~settings_ok <=>
                     (~out.scf_converged \/ (out.scf_converged /\ GapBelowMinimum(out))))
           /\ (~IsFatal(out) /\ settings_ok) =>
                 (status = "running" /\ exit_code = 0 /\ IsAccept(out))
           /\ BandgapTested <=> (~IsFatal(out) /\ out.scf_converged)

\* A converged attempt is rejected because of its band gap alone.
C3_Witness ==
    /\ JustInspected
    /\ LastStage.outputs.output_parameters
    /\ LastStage.outputs.scf_converged
    /\ GapBelowMinimum(LastStage.outputs)
    /\ ~settings_ok
    /\ BandgapTested

\* C4: the inspection of an attempt without output_parameters ends the run
\* with ERROR_PARSING_OUTPUT and leaves the escalation index and the merged
\* configuration unchanged; after it nothing is submitted any more.
C4_ParseFailureTerminal ==
    [][ /\ ( /\ pc = "inspect_and_update_settings_geo_opt"
             /\ awaitables = <<>>
             /\ stages # <<>>
             /\ ~LastStage.outputs.output_parameters )
           => ( /\ exit_code' = ERROR_PARSING_OUTPUT
                /\ status' = "finished"
                /\ settings_idx' = settings_idx
                /\ settings_tag' = settings_tag
                /\ cp2k_param' = cp2k_param
                /\ awaitables' = awaitables
                /\ stages' = stages )
        /\ exit_code = ERROR_PARSING_OUTPUT
           => ( /\ exit_code' = ERROR_PARSING_OUTPUT
                /\ awaitables' = awaitables
                /\ stages' = stages
                /\ settings_idx' = settings_idx )
      ]_vars

\* A parse failure ended the run although a later profile exists.
C4_Witness ==
    /\ exit_code = ERROR_PARSING_OUTPUT
    /\ status = "finished"
    /\ (settings_idx + 1) \in DOMAIN protocol.settings
    /\ NumSubmitted(GeoLabel) = 1
    /\ NumSubmitted(BsseLabel) = 0

\* C5: when starting_settings_idx s > 0 and some settings_j, 1 <= j <= s, is
\* missing, setup ends the run with ERROR_MISSING_INITIAL_SETTINGS and no
\* stage is ever submitted.
C5_MissingStartingSettings ==
    ( /\ pc # "setup"
      /\ starting_settings_idx > 0
      /\ \E j \in 1..starting_settings_idx : j \notin DOMAIN protocol.settings )
    => ( /\ exit_code = ERROR_MISSING_INITIAL_SETTINGS
         /\ status = "finished"
         /\ NumSubmitted(GeoLabel) = 0
         /\ NumSubmitted(BsseLabel) = 0 )

\* C6: when the ladder has no settings_0, setup ends the run with
\* ERROR_MISSING_INITIAL_SETTINGS (which is not ERROR_NO_MORE_SETTINGS) and
\* no stage is submitted.
C6_MissingSettings0 ==
    ( /\ pc # "setup"
      /\ 0 \notin DOMAIN protocol.settings )
    => ( /\ exit_code = ERROR_MISSING_INITIAL_SETTINGS
         /\ exit_code # ERROR_NO_MORE_SETTINGS
         /\ status = "finished"
         /\ NumSubmitted(GeoLabel) = 0
         /\ NumSubmitted(BsseLabel) = 0 )

C8_Discard ==
    /\ (JustInspected /\ IsRetryEscalate(LastStage.outputs))
       => ( /\ LastStage.out_label # ""
            /\ \/ status = "running"
               \/ exit_code = ERROR_NO_MORE_SETTINGS )
    /\ outputs.output_parameters # {}
       => ( /\ outputs.geo_from = NumResolved(GeoLabel)
            /\ outputs.loaded_structure = outputs.geo_from
            /\ stages[outputs.geo_from].label = GeoLabel
            /\ stages[outputs.geo_from].out_label = ""
            /\ IsAccept(stages[outputs.geo_from].outputs) )

\* C9: the geometry loop goes on exactly while the verdict is RetryEscalate
\* and the next profile exists; the BSSE stage is submitted at most once and
\* only after an Accept verdict; the results are emitted only after the
\* BSSE stage resolved.
C9_Outline ==
    /\ JustInspected
       => ( ( /\ IsRetryEscalate(LastStage.outputs)
              /\ settings_idx \in DOMAIN protocol.settings )
            <=> (status = "running" /\ ~settings_ok) )
    /\ NumSubmitted(BsseLabel) <= 1
    /\ NumSubmitted(BsseLabel) = 1
       => ( /\ settings_ok
            /\ NumResolved(GeoLabel) >= 1
            /\ IsAccept(stages[NumResolved(GeoLabel)].outputs) )
    /\ outputs.output_parameters # {}
       => (NumResolved(BsseLabel) = 1 /\ LastStage.label = BsseLabel)

\* C10: at most one geometry attempt is in flight, the attempt k+1 is
\* submitted only after k attempts were inspected, and while an attempt is
\* in flight every resolved attempt has been inspected.
C10_SequentialAttempts ==
    /\ InFlight(GeoLabel) <= 1
    /\ NumSubmitted(GeoLabel) <= NumInspected + 1
    /\ NumInspected <= NumResolved(GeoLabel)
    /\ InFlight(GeoLabel) = 1 => NumInspected = NumResolved(GeoLabel)

\* A geometry attempt is in flight.
C10_Witness ==
    /\ InFlight(GeoLabel) = 1
    /\ pc = "inspect_and_update_settings_geo_opt"
    /\ status = "running"

\* C11: once a fatal condition occurred (a missing initial profile, a parse
\* failure, or a RetryEscalate verdict with no next profile) the run has
\* ended with the exit code of that class and nothing is in flight; the
\* three codes are non-zero and pairwise distinct; a run that emitted its
\* record after the BSSE stage ends with exit code 0.
C11_FatalCodes ==
    /\ ( /\ pc # "setup"
         /\ \E j \in 0..starting_settings_idx : j \notin DOMAIN protocol.settings )
       => exit_code = ERROR_MISSING_INITIAL_SETTINGS
    /\ (JustInspected /\ IsFatal(LastStage.outputs))
       => exit_code = ERROR_PARSING_OUTPUT
    /\ ( /\ JustInspected
         /\ IsRetryEscalate(LastStage.outputs)
         /\ settings_idx \notin DOMAIN protocol.settings )
       => exit_code = ERROR_NO_MORE_SETTINGS
    /\ exit_code # 0
       => ( /\ status = "finished"
            /\ pc = "end"
            /\ awaitables = <<>>
            /\ NumSubmitted(BsseLabel) = 0
            /\ ~ENABLED Next )
    /\ Cardinality({0, ERROR_MISSING_INITIAL_SETTINGS, ERROR_NO_MORE_SETTINGS,
                    ERROR_PARSING_OUTPUT}) = 4
    /\ outputs.output_parameters # {}
       => (status = "finished" /\ exit_code = 0 /\ IsAccept(stages[outputs.geo_from].outputs))

(***************************************************************************)
(* Part 2: IsothermWorkChain                                               *)
(*                                                                         *)
(* Numbers.  The quantities of the work chain are floats; they are         *)
(* modelled as exact fractions <<n, d>>, d > 0, in lowest terms.           *)
(***************************************************************************)
\* Longest run of the loop of choose_pressure_points that is followed.
MaxPoints == 8

RECURSIVE GCD(_, _)
GCD(a, b) == IF b = 0 THEN a ELSE GCD(b, a % b)

Abs(n) == IF n < 0 THEN 0 - n ELSE n

R(n, d) ==
    LET g == GCD(Abs(n), d)
    IN IF n = 0 THEN <<0, 1>> ELSE <<n \div g, d \div g>>

RAdd(x, y) == R(x[1] * y[2] + y[1] * x[2], x[2] * y[2])
RMul(x, y) == R(x[1] * y[1], x[2] * y[2])
RInv(x) == IF x[1] < 0 THEN R(0 - x[2], 0 - x[1]) ELSE R(x[2], x[1])
RDiv(x, y) == RMul(x, RInv(y))
RLt(x, y) == x[1] * y[2] < y[1] * x[2]
RLeq(x, y) == x[1] * y[2] <= y[1] * x[2]
RMin(x, y) == IF RLeq(x, y) THEN x ELSE y
RIsZero(x) == x[1] = 0

\* The loop of choose_pressure_points; it ends by appending pressure_max.
\* done is FALSE when the loop is still running after MaxPoints turns.
\* Variant of PressureLoop whose step is not capped by pressure_maxstep.
RECURSIVE PressureLoop_no_step_cap(_, _, _, _)
PressureLoop_no_step_cap(pressure_points, inp_param, b_value, fuel) ==
    IF fuel = 0
    THEN [done |-> FALSE, error |-> "", points |-> pressure_points]
    ELSE LET pold == pressure_points[Len(pressure_points)]
             delta_p == RMul(inp_param.pressure_precision,
                             RAdd(RAdd(RMul(b_value, RMul(pold, pold)),
                                       RMul(R(2, 1), pold)),
                                  RInv(b_value)))
             pnew == RAdd(pold, delta_p)
         IN IF RLeq(pnew, inp_param.pressure_max)
            THEN PressureLoop_no_step_cap(Append(pressure_points, pnew), inp_param,
                                          b_value, fuel - 1)
            ELSE [done |-> TRUE, error |-> "",
                  points |-> Append(pressure_points, inp_param.pressure_max)]

RECURSIVE PressureLoop(_, _, _, _)
PressureLoop(pressure_points, inp_param, b_value, fuel) ==
    IF fuel = 0
    THEN [done |-> FALSE, error |-> "", points |-> pressure_points]
    ELSE LET pold == pressure_points[Len(pressure_points)]
             delta_p == RMin(inp_param.pressure_maxstep,
                             RMul(inp_param.pressure_precision,
                                  RAdd(RAdd(RMul(b_value, RMul(pold, pold)),
                                            RMul(R(2, 1), pold)),
                                       RInv(b_value))))
             pnew == RAdd(pold, delta_p)
         IN IF RLeq(pnew, inp_param.pressure_max)
            THEN PressureLoop(Append(pressure_points, pnew), inp_param, b_value, fuel - 1)
            ELSE [done |-> TRUE, error |-> "",
                  points |-> Append(pressure_points, inp_param.pressure_max)]

\* Variant of choose_pressure_points that ignores pressure_list.
choose_pressure_points_no_list(inp_param, geom, raspa_widom_out) ==
    LET khenry == raspa_widom_out.henry_coefficient_average
    IN IF RIsZero(geom.Estimated_saturation_loading) \/ RIsZero(khenry)
       THEN [done |-> TRUE, error |-> "ZeroDivisionError", points |-> <<>>]
       ELSE PressureLoop(<<inp_param.pressure_min>>, inp_param,
                         RMul(RDiv(khenry, geom.Estimated_saturation_loading),
                              R(100000, 1)),
                         MaxPoints)

\* choose_pressure_points: the pressure_list of the parameters if there is
\* one, else the points of the single-site Langmuir model.  A division by
\* zero raises ZeroDivisionError.
choose_pressure_points(inp_param, geom, raspa_widom_out) ==
    IF inp_param.has_pressure_list
    THEN [done |-> TRUE, error |-> "", points |-> inp_param.pressure_list]
    ELSE LET khenry == raspa_widom_out.henry_coefficient_average
         IN IF RIsZero(geom.Estimated_saturation_loading) \/ RIsZero(khenry)
            THEN [done |-> TRUE, error |-> "ZeroDivisionError", points |-> <<>>]
            ELSE PressureLoop(<<inp_param.pressure_min>>, inp_param,
                              RMul(RDiv(khenry, geom.Estimated_saturation_loading),
                                   R(100000, 1)),
                              MaxPoints)

(***************************************************************************)
(* choose_pressure_points on a range of arguments                          *)
(***************************************************************************)
\* The pressure parameters of the schema, which orders none of them:
\* pressure_min below, at or above pressure_max, steps and precisions that
\* may be zero, with or without a pressure_list.
SamplerParameters ==
    { [pressure_min |-> R(p0, 1), pressure_max |-> R(pmax, 1),
       pressure_maxstep |-> R(ms, 1), pressure_precision |-> R(prec, 2),
       has_pressure_list |-> FALSE, pressure_list |-> <<>>] :
          p0 \in 0..3, pmax \in {2, 4}, ms \in 0..2, prec \in 0..2 }
    \cup
    { [pressure_min |-> R(p0, 1), pressure_max |-> R(4, 1),
       pressure_maxstep |-> R(1, 1), pressure_precision |-> R(1, 2),
       has_pressure_list |-> TRUE, pressure_list |-> l] :
          p0 \in 0..2, l \in {<<>>, <<R(3, 1), R(1, 1)>>, <<R(5, 1)>>} }

\* Estimated_saturation_loading (mol/kg) of a porous framework.
SamplerGeoms == { [Estimated_saturation_loading |-> R(q, 1)] : q \in 1..2 }

\* henry_coefficient_average (mol/kg/Pa)
SamplerWidoms == { [henry_coefficient_average |-> R(k, 100000)] : k \in 1..2 }

SamplerArgs ==
    { [exists |-> TRUE, inp_param |-> ip, geom |-> g, raspa_widom_out |-> w] :
         ip \in SamplerParameters, g \in SamplerGeoms, w \in SamplerWidoms }

\* One call of the calcfunction.
call_choose_pressure_points ==
    /\ cpp_args.exists
    /\ cpp_result = NoNode
    /\ LET r == choose_pressure_points(cpp_args.inp_param, cpp_args.geom,
                                       cpp_args.raspa_widom_out)
       IN cpp_result' = [exists |-> TRUE, done |-> r.done, error |-> r.error,
                         points |-> r.points]
    /\ UNCHANGED <<cpp_args, beVars, isoVars, mcVars>>

BeIdle ==
    /\ pc = "idle"
    /\ status = "idle"
    /\ exit_code = 0
    /\ protocol = NoNode
    /\ starting_settings_idx = 0
    /\ parameters = NoNode
    /\ settings_ok = FALSE
    /\ settings_idx = 0
    /\ settings_tag = 0
    /\ cp2k_param = NoNode
    /\ awaitables = <<>>
    /\ stages = <<>>
    /\ outputs = NoNode
    /\ reports = <<>>

SamplerInit ==
    /\ cpp_args \in SamplerArgs
    /\ cpp_result = NoNode
    /\ BeIdle
    /\ IsoIdle
    /\ McIdle

SamplerNext == call_choose_pressure_points

SpecSampler == SamplerInit /\ [][SamplerNext]_vars

\* The steepness b of the Langmuir model for the arguments of a call.
BValue(args) ==
    RMul(RDiv(args.raspa_widom_out.henry_coefficient_average,
              args.geom.Estimated_saturation_loading), R(100000, 1))

\* The arguments are in the domain of the Langmuir sampler: no
\* pressure_list, positive steepness, step and precision, p0 <= pmax.
SamplerDomain(args) ==
    /\ ~args.inp_param.has_pressure_list
    /\ RLt(R(0, 1), BValue(args))
    /\ RLt(R(0, 1), args.inp_param.pressure_precision)
    /\ RLt(R(0, 1), args.inp_param.pressure_maxstep)
    /\ RLeq(args.inp_param.pressure_min, args.inp_param.pressure_max)

StrictlyIncreasing(s) == \A i \in 1..(Len(s) - 1) : RLt(s[i], s[i + 1])

\* C18: for b > 0, precision > 0, maxStep > 0 and pmax >= p0 the returned
\* sequence is the value of the function of the arguments, is strictly
\* increasing and ends with pmax.
C18_SamplerIncreasing ==
    (cpp_result.exists /\ SamplerDomain(cpp_args))
    => ( /\ cpp_result.done
         /\ cpp_result.error = ""
         /\ cpp_result.points =
               choose_pressure_points(cpp_args.inp_param, cpp_args.geom,
                                      cpp_args.raspa_widom_out).points
         /\ StrictlyIncreasing(cpp_result.points)
         /\ cpp_result.points[Len(cpp_result.points)] = cpp_args.inp_param.pressure_max )

\* C19: with pressure_min = pressure_max and no pressure_list the returned
\* sequence is exactly <<pmax>>.
C19_SamplerBoundary ==
    ( /\ cpp_result.exists
      /\ SamplerDomain(cpp_args)
      /\ cpp_args.inp_param.pressure_min = cpp_args.inp_param.pressure_max )
    => cpp_result.points = <<cpp_args.inp_param.pressure_max>>

(***************************************************************************)
(* IsothermWorkChain: inputs, dictionaries and job results                 *)
(***************************************************************************)
\* A float that is None, and a list entry that is None.
None == <<>>

\* bar to Pa (run_raspa_gcmc) and K to kJ/mol (get_output_parameters)
Bar2Pa == R(100000, 1)
conv_ener == R(1000, 120273)

\* self.ctx.molecule
Molecule == [name |-> "co2", molsatdens |-> R(2, 1)]

\* Keys of the output_parameters of ZeoppCalculation that the work chain reads.
ZeoppKeys == {"POAV_A^3", "POAV_cm^3/g", "POAV_Volume_fraction", "Number_of_blocking_spheres"}

\* Keys that get_geometric_dict adds.
GeometricKeys == {"Estimated_saturation_loading", "Estimated_saturation_loading_unit",
                  "is_porous"}

widom_labels == {"henry_coefficient_average", "henry_coefficient_dev",
                 "henry_coefficient_unit", "adsorption_energy_widom_average",
                 "adsorption_energy_widom_dev", "adsorption_energy_widom_unit"}

\* Keys that get_output_parameters adds from the Widom result.
WidomKeys == {"temperature", "temperature_unit", "is_kh_enough"} \cup widom_labels

\* Keys that get_output_parameters adds from the GCMC results.
IsothermKeys == {"isotherm", "conversion_factor_molec_uc_to_cm3stp_cm3",
                 "conversion_factor_molec_uc_to_mg_g",
                 "conversion_factor_molec_uc_to_mol_kg"}

NoIsotherm ==
    [pressure |-> <<>>,
     loading_absolute_average |-> <<>>, loading_absolute_dev |-> <<>>,
     enthalpy_of_adsorption_average |-> <<>>, enthalpy_of_adsorption_dev |-> <<>>]

\* output_parameters of a ZeoppCalculation: accessible pore volume (one
\* number stands for POAV_A^3 and POAV_cm^3/g) and blocking spheres.
ZeoppOutputs ==
    { [keys |-> ZeoppKeys, POAV |-> R(v, 2), Number_of_blocking_spheres |-> n] :
         v \in {0, 1}, n \in {0, 2} }

\* get_geometric_dict: the Zeo++ dictionary with Estimated_saturation_loading
\* and is_porous.
get_geometric_dict(zeopp_out, molecule) ==
    [exists |-> TRUE,
     keys |-> zeopp_out.keys \cup GeometricKeys,
     POAV |-> zeopp_out.POAV,
     Number_of_blocking_spheres |-> zeopp_out.Number_of_blocking_spheres,
     Estimated_saturation_loading |-> RMul(zeopp_out.POAV, molecule.molsatdens),
     is_porous |-> RLt(R(0, 1), zeopp_out.POAV)]

\* The value of raspa_minKh, and the Henry coefficients a Widom job returns:
\* below it, equal to it and (two values) above it.
MinKh == R(1, 100000)
WidomOutputs ==
    { [henry_coefficient_average |-> R(k, 200000)] : k \in {1, 2, 4, 6} }

\* output_parameters of a GCMC job: loading (molec/uc) with its conversion
\* factor, and the enthalpy of adsorption (K), None when there are no
\* particles.
GcmcOutputs ==
    { [loading_absolute_average |-> R(3, 1), loading_absolute_dev |-> R(1, 1),
       conversion_factor_molec_uc_to_mol_kg |-> R(1, 2),
       enthalpy_of_adsorption_average |-> e[1],
       enthalpy_of_adsorption_dev |-> e[2]] :
         e \in { <<None, None>>, <<R(0 - 1200, 1), R(5, 1)>> } }

\* The validated parameters (defaults merged by the schema).
IsoParameters ==
    { [raspa_minKh |-> MinKh,
       has_temperature_list |-> tl,
       pressure_min |-> R(pp[1], 1), pressure_max |-> R(2, 1),
       pressure_maxstep |-> R(pp[2], 1), pressure_precision |-> R(1, 2),
       has_pressure_list |-> pp[3], pressure_list |-> pp[4]] :
         tl \in BOOLEAN,
         pp \in { <<1, 1, FALSE, <<>>>>,
                  <<2, 1, FALSE, <<>>>>,
                  <<1, 1, TRUE, <<R(3, 1), R(1, 1)>>>>,
                  <<0, 0, TRUE, <<R(5, 1)>>>>,
                  <<1, 1, TRUE, <<>>>> } }

\* inputs.geometric: absent, or a dictionary made by get_geometric_dict.
IsoGeometrics ==
    {NoNode} \cup { get_geometric_dict(z, Molecule) : z \in ZeoppOutputs }

IsoInputs ==
    { [exists |-> TRUE, parameters |-> ip, geometric |-> g] :
         ip \in IsoParameters, g \in IsoGeometrics }

\* A finished child process; has_output says whether it has output_parameters.
Process(sub, has_output, out) ==
    [exists |-> TRUE, label |-> sub.label, has_output |-> has_output, outputs |-> out]

\* The falsy test of `if gcmc_out['general'][label]`: None or 0.0
Falsy(x) == x = None \/ RIsZero(x)

\* The isotherm lists that get_output_parameters builds from the first n
\* GCMC results.
RECURSIVE IsothermLists(_, _)
IsothermLists(gcmc, n) ==
    IF n = 0
    THEN NoIsotherm
    ELSE LET prev == IsothermLists(gcmc, n - 1)
             gcmc_out == gcmc[n].outputs
             conv_load == gcmc_out.conversion_factor_molec_uc_to_mol_kg
             enth(x) == IF Falsy(x) THEN None ELSE RMul(conv_ener, x)
         IN [pressure |-> <<>>,
             loading_absolute_average |->
                 Append(prev.loading_absolute_average,
                        RMul(conv_load, gcmc_out.loading_absolute_average)),
             loading_absolute_dev |->
                 Append(prev.loading_absolute_dev,
                        RMul(conv_load, gcmc_out.loading_absolute_dev)),
             enthalpy_of_adsorption_average |->
                 Append(prev.enthalpy_of_adsorption_average,
                        enth(gcmc_out.enthalpy_of_adsorption_average)),
             enthalpy_of_adsorption_dev |->
                 Append(prev.enthalpy_of_adsorption_dev,
                        enth(gcmc_out.enthalpy_of_adsorption_dev))]

\* Variant of get_output_parameters that puts the isotherm block in every
\* record.
get_output_parameters_isotherm_always_block(geom_out, inp_params, widom_out, pressures, gcmc) ==
    [error |-> "",
     dict |-> [keys |-> geom_out.keys \cup IsothermKeys,
               POAV |-> geom_out.POAV,
               Number_of_blocking_spheres |-> geom_out.Number_of_blocking_spheres,
               Estimated_saturation_loading |-> geom_out.Estimated_saturation_loading,
               is_porous |-> geom_out.is_porous,
               is_kh_enough |-> FALSE,
               henry_coefficient_average |-> None,
               isotherm |-> [IsothermLists(gcmc, Len(gcmc)) EXCEPT !.pressure = pressures]]]

\* get_output_parameters of isotherm.py.  widom_out is NoNode for None;
\* gcmc is the list of GCMC processes, gcmc[i] labelled RaspaGCMC_i.
\* error is the exception raised, "" if none.
get_output_parameters_isotherm(geom_out, inp_params, widom_out, pressures, gcmc) ==
    LET base == [keys |-> geom_out.keys,
                 POAV |-> geom_out.POAV,
                 Number_of_blocking_spheres |-> geom_out.Number_of_blocking_spheres,
                 Estimated_saturation_loading |-> geom_out.Estimated_saturation_loading,
                 is_porous |-> geom_out.is_porous,
                 is_kh_enough |-> FALSE,
                 henry_coefficient_average |-> None,
                 isotherm |-> NoIsotherm]
    IN IF ~(geom_out.is_porous /\ widom_out.exists)
       THEN [error |-> "", dict |-> base]
       ELSE LET is_kh_enough ==
                    RLt(inp_params.raspa_minKh, widom_out.henry_coefficient_average)
                with_widom ==
                    [base EXCEPT !.keys = @ \cup WidomKeys,
                                 !.is_kh_enough = is_kh_enough,
                                 !.henry_coefficient_average =
                                     widom_out.henry_coefficient_average]
            IN IF ~is_kh_enough
               THEN [error |-> "", dict |-> with_widom]
               ELSE IF Len(gcmc) < Len(pressures)
               THEN [error |-> "KeyError", dict |-> with_widom]
               ELSE IF Len(pressures) = 0
               THEN [error |-> "UnboundLocalError", dict |-> with_widom]
               ELSE [error |-> "",
                     dict |-> [with_widom EXCEPT
                                 !.keys = @ \cup IsothermKeys,
                                 !.isotherm =
                                     [IsothermLists(gcmc, Len(pressures))
                                        EXCEPT !.pressure = pressures]]]

(***************************************************************************)
(* IsothermWorkChain: the outline                                          *)
(*   setup, run_zeopp, if_(should_run_widom)(run_raspa_widom,              *)
(*     if_(should_run_gcmc)(init_raspa_gcmc,                               *)
(*       while_(should_run_another_gcmc)(run_raspa_gcmc))),                *)
(*   return_output_parameters                                              *)
(***************************************************************************)
IsoInit ==
    /\ iso_pc = "setup"
    /\ iso_status = "running"
    /\ iso_inputs \in IsoInputs
    /\ ctx = NoNode
    /\ iso_awaitables = <<>>
    /\ iso_outputs = [keys |-> {}, output_parameters |-> NoNode]
    /\ iso_called = <<>>
    /\ iso_exception = ""
    /\ BeIdle
    /\ CppIdle
    /\ McIdle

\* An exception in a step: the work chain is excepted, nothing is output.
Excepted(name) ==
    /\ iso_status' = "excepted"
    /\ iso_exception' = name
    /\ iso_pc' = "end"
    /\ UNCHANGED <<iso_inputs, ctx, iso_awaitables, iso_outputs, iso_called>>

IsoStep(step) ==
    /\ iso_status = "running"
    /\ iso_pc = step
    /\ iso_awaitables = <<>>

\* self.submit(...) followed by return ToContext(...)
IsoSubmit(sub) ==
    /\ iso_awaitables' = <<sub>>
    /\ iso_called' = Append(iso_called, sub)

setup_isotherm ==
    /\ IsoStep("setup")
    /\ ctx' = [keys |-> {"molecule", "parameters", "temperature", "multitemp_mode"},
               molecule |-> Molecule,
               parameters |-> iso_inputs.parameters,
               multitemp_mode |->
                   IF iso_inputs.geometric.exists THEN "run_single_temp"
                   ELSE IF iso_inputs.parameters.has_temperature_list THEN "run_geom_only"
                   ELSE "None",
               zeopp |-> NoNode,
               geom |-> NoNode,
               raspa_widom |-> NoNode,
               is_kh_enough |-> FALSE,
               current_p_index |-> 0,
               pressures |-> <<>>,
               raspa_gcmc |-> <<>>]
    /\ iso_pc' = "run_zeopp"
    /\ UNCHANGED <<iso_status, iso_inputs, iso_awaitables, iso_outputs, iso_called,
                   iso_exception>>
    /\ UNCHANGED <<beVars, cppVars, mcVars>>

\* Variant of run_zeopp that submits the Zeo++ calculation in every mode.
run_zeopp_in_every_mode ==
    /\ IsoStep("run_zeopp")
    /\ IsoSubmit([key |-> "zeopp", label |-> "ZeoppVolpoBlock"])
    /\ iso_pc' = "should_run_widom"
    /\ UNCHANGED <<iso_status, iso_inputs, ctx, iso_outputs, iso_exception>>
    /\ UNCHANGED <<beVars, cppVars, mcVars>>

run_zeopp ==
    /\ IsoStep("run_zeopp")
    /\ IF ctx.multitemp_mode = "run_single_temp"
       THEN UNCHANGED <<iso_awaitables, iso_called>>
       ELSE IsoSubmit([key |-> "zeopp", label |-> "ZeoppVolpoBlock"])
    /\ iso_pc' = "should_run_widom"
    /\ UNCHANGED <<iso_status, iso_inputs, ctx, iso_outputs, iso_exception>>
    /\ UNCHANGED <<beVars, cppVars, mcVars>>

\* The engine: the awaited calculation ends, with output_parameters or
\* without, and is stored in the context under its key (appended for
\* raspa_gcmc).
resolve_isotherm ==
    /\ iso_status = "running"
    /\ iso_awaitables # <<>>
    /\ LET sub == iso_awaitables[1]
           outs == IF sub.key = "zeopp" THEN ZeoppOutputs
                   ELSE IF sub.key = "raspa_widom" THEN WidomOutputs
                   ELSE GcmcOutputs
       IN \E p \in {Process(sub, FALSE, NoNode)} \cup {Process(sub, TRUE, o) : o \in outs} :
            ctx' = IF sub.key = "zeopp"
                   THEN [ctx EXCEPT !.zeopp = p, !.keys = @ \cup {"zeopp"}]
                   ELSE IF sub.key = "raspa_widom"
                   THEN [ctx EXCEPT !.raspa_widom = p, !.keys = @ \cup {"raspa_widom"}]
                   ELSE [ctx EXCEPT !.raspa_gcmc = Append(@, p),
                                    !.keys = @ \cup {"raspa_gcmc"}]
    /\ iso_awaitables' = <<>>
    /\ UNCHANGED <<iso_pc, iso_status, iso_inputs, iso_outputs, iso_called, iso_exception>>
    /\ UNCHANGED <<beVars, cppVars, mcVars>>

\* Variant of should_run_widom that continues whatever is_porous says.
should_run_widom_ignores_porosity ==
    /\ IsoStep("should_run_widom")
    /\ IF ctx.multitemp_mode = "run_single_temp"
       THEN /\ ctx' = [ctx EXCEPT !.geom = iso_inputs.geometric, !.keys = @ \cup {"geom"}]
            /\ iso_pc' = "run_raspa_widom"
            /\ UNCHANGED <<iso_status, iso_inputs, iso_awaitables, iso_outputs, iso_called,
                           iso_exception>>
       ELSE IF ~ctx.zeopp.has_output
       THEN Excepted("NotExistentAttributeError")
       ELSE LET geom == get_geometric_dict(ctx.zeopp.outputs, ctx.molecule)
            IN /\ ctx' = [ctx EXCEPT !.geom = geom, !.keys = @ \cup {"geom"}]
               /\ iso_outputs' =
                     IF geom.is_porous /\ geom.Number_of_blocking_spheres > 0
                     THEN [iso_outputs EXCEPT !.keys = @ \cup {"block"}]
                     ELSE iso_outputs
               /\ iso_pc' = IF ~(ctx.multitemp_mode = "run_geom_only")
                            THEN "run_raspa_widom"
                            ELSE "return_output_parameters"
               /\ UNCHANGED <<iso_status, iso_inputs, iso_awaitables, iso_called,
                              iso_exception>>
    /\ UNCHANGED <<beVars, cppVars, mcVars>>

\* Variant of should_run_widom that outputs the block file whenever there are
\* blocking spheres.
should_run_widom_block_if_spheres ==
    /\ IsoStep("should_run_widom")
    /\ IF ctx.multitemp_mode = "run_single_temp"
       THEN /\ ctx' = [ctx EXCEPT !.geom = iso_inputs.geometric, !.keys = @ \cup {"geom"}]
            /\ iso_pc' = "run_raspa_widom"
            /\ UNCHANGED <<iso_status, iso_inputs, iso_awaitables, iso_outputs, iso_called,
                           iso_exception>>
       ELSE IF ~ctx.zeopp.has_output
       THEN Excepted("NotExistentAttributeError")
       ELSE LET geom == get_geometric_dict(ctx.zeopp.outputs, ctx.molecule)
            IN /\ ctx' = [ctx EXCEPT !.geom = geom, !.keys = @ \cup {"geom"}]
               /\ iso_outputs' =
                     IF geom.Number_of_blocking_spheres > 0
                     THEN [iso_outputs EXCEPT !.keys = @ \cup {"block"}]
                     ELSE iso_outputs
               /\ iso_pc' = IF geom.is_porous /\ ~(ctx.multitemp_mode = "run_geom_only")
                            THEN "run_raspa_widom"
                            ELSE "return_output_parameters"
               /\ UNCHANGED <<iso_status, iso_inputs, iso_awaitables, iso_called,
                              iso_exception>>
    /\ UNCHANGED <<beVars, cppVars, mcVars>>

should_run_widom ==
    /\ IsoStep("should_run_widom")
    /\ IF ctx.multitemp_mode = "run_single_temp"
       THEN /\ ctx' = [ctx EXCEPT !.geom = iso_inputs.geometric, !.keys = @ \cup {"geom"}]
            /\ iso_pc' = "run_raspa_widom"
            /\ UNCHANGED <<iso_status, iso_inputs, iso_awaitables, iso_outputs, iso_called,
                           iso_exception>>
       ELSE IF ~ctx.zeopp.has_output
       THEN Excepted("NotExistentAttributeError")
       ELSE LET geom == get_geometric_dict(ctx.zeopp.outputs, ctx.molecule)
            IN /\ ctx' = [ctx EXCEPT !.geom = geom, !.keys = @ \cup {"geom"}]
               /\ iso_outputs' =
                     IF geom.is_porous /\ geom.Number_of_blocking_spheres > 0
                     THEN [iso_outputs EXCEPT !.keys = @ \cup {"block"}]
                     ELSE iso_outputs
               /\ iso_pc' = IF geom.is_porous /\ ~(ctx.multitemp_mode = "run_geom_only")
                            THEN "run_raspa_widom"
                            ELSE "return_output_parameters"
               /\ UNCHANGED <<iso_status, iso_inputs, iso_awaitables, iso_called,
                              iso_exception>>
    /\ UNCHANGED <<beVars, cppVars, mcVars>>

run_raspa_widom ==
    /\ IsoStep("run_raspa_widom")
    /\ IsoSubmit([key |-> "raspa_widom", label |-> "RaspaWidom",
                  block_pocket |-> /\ ctx.geom.Number_of_blocking_spheres > 0
                                   /\ ctx.multitemp_mode # "run_single_temp"])
    /\ iso_pc' = "should_run_gcmc"
    /\ UNCHANGED <<iso_status, iso_inputs, ctx, iso_outputs, iso_exception>>
    /\ UNCHANGED <<beVars, cppVars, mcVars>>

\* Variant of should_run_gcmc that continues when kH is below raspa_minKh.
should_run_gcmc_reversed ==
    /\ IsoStep("should_run_gcmc")
    /\ IF ~ctx.raspa_widom.has_output
       THEN Excepted("NotExistentAttributeError")
       ELSE LET is_kh_enough == RLt(ctx.raspa_widom.outputs.henry_coefficient_average,
                                    ctx.parameters.raspa_minKh)
            IN /\ ctx' = [ctx EXCEPT !.is_kh_enough = is_kh_enough,
                                     !.keys = @ \cup {"is_kh_enough"}]
               /\ iso_pc' = IF is_kh_enough THEN "init_raspa_gcmc"
                            ELSE "return_output_parameters"
               /\ UNCHANGED <<iso_status, iso_inputs, iso_awaitables, iso_outputs,
                              iso_called, iso_exception>>
    /\ UNCHANGED <<beVars, cppVars, mcVars>>

\* Variant of should_run_gcmc that continues when kH equals raspa_minKh.
should_run_gcmc_not_strict ==
    /\ IsoStep("should_run_gcmc")
    /\ IF ~ctx.raspa_widom.has_output
       THEN Excepted("NotExistentAttributeError")
       ELSE LET is_kh_enough == RLeq(ctx.parameters.raspa_minKh,
                                     ctx.raspa_widom.outputs.henry_coefficient_average)
            IN /\ ctx' = [ctx EXCEPT !.is_kh_enough = is_kh_enough,
                                     !.keys = @ \cup {"is_kh_enough"}]
               /\ iso_pc' = IF is_kh_enough THEN "init_raspa_gcmc"
                            ELSE "return_output_parameters"
               /\ UNCHANGED <<iso_status, iso_inputs, iso_awaitables, iso_outputs,
                              iso_called, iso_exception>>
    /\ UNCHANGED <<beVars, cppVars, mcVars>>

should_run_gcmc ==
    /\ IsoStep("should_run_gcmc")
    /\ IF ~ctx.raspa_widom.has_output
       THEN Excepted("NotExistentAttributeError")
       ELSE LET is_kh_enough == RLt(ctx.parameters.raspa_minKh,
                                    ctx.raspa_widom.outputs.henry_coefficient_average)
            IN /\ ctx' = [ctx EXCEPT !.is_kh_enough = is_kh_enough,
                                     !.keys = @ \cup {"is_kh_enough"}]
               /\ iso_pc' = IF is_kh_enough THEN "init_raspa_gcmc"
                            ELSE "return_output_parameters"
               /\ UNCHANGED <<iso_status, iso_inputs, iso_awaitables, iso_outputs,
                              iso_called, iso_exception>>
    /\ UNCHANGED <<beVars, cppVars, mcVars>>

\* A call of choose_pressure_points that does not return leaves the step
\* running for ever (iso_pc = "choose_pressure_points").
init_raspa_gcmc ==
    /\ IsoStep("init_raspa_gcmc")
    /\ LET r == choose_pressure_points(ctx.parameters, ctx.geom, ctx.raspa_widom.outputs)
       IN IF r.error # ""
          THEN Excepted(r.error)
          ELSE /\ ctx' = [ctx EXCEPT !.current_p_index = 0,
                                     !.pressures = r.points,
                                     !.keys = @ \cup {"current_p_index", "pressures"}]
               /\ iso_pc' = IF r.done THEN "should_run_another_gcmc"
                            ELSE "choose_pressure_points"
               /\ UNCHANGED <<iso_status, iso_inputs, iso_awaitables, iso_outputs,
                              iso_called, iso_exception>>
    /\ UNCHANGED <<beVars, cppVars, mcVars>>

\* Variant of should_run_another_gcmc that leaves the loop one pressure early.
should_run_another_gcmc_stops_early ==
    /\ IsoStep("should_run_another_gcmc")
    /\ iso_pc' = IF ctx.current_p_index + 1 < Len(ctx.pressures)
                 THEN "run_raspa_gcmc"
                 ELSE "return_output_parameters"
    /\ UNCHANGED <<iso_status, iso_inputs, ctx, iso_awaitables, iso_outputs, iso_called,
                   iso_exception>>
    /\ UNCHANGED <<beVars, cppVars, mcVars>>

should_run_another_gcmc ==
    /\ IsoStep("should_run_another_gcmc")
    /\ iso_pc' = IF ctx.current_p_index < Len(ctx.pressures)
                 THEN "run_raspa_gcmc"
                 ELSE "return_output_parameters"
    /\ UNCHANGED <<iso_status, iso_inputs, ctx, iso_awaitables, iso_outputs, iso_called,
                   iso_exception>>
    /\ UNCHANGED <<beVars, cppVars, mcVars>>

GcmcLabel(i) ==
    IF i = 1 THEN "RaspaGCMC_1" ELSE IF i = 2 THEN "RaspaGCMC_2"
    ELSE IF i = 3 THEN "RaspaGCMC_3" ELSE "RaspaGCMC_n"

\* Variant of run_raspa_gcmc that restarts every job from the first one.
run_raspa_gcmc_restart_from_first ==
    /\ IsoStep("run_raspa_gcmc")
    /\ IsoSubmit([key |-> "raspa_gcmc",
                  label |-> GcmcLabel(ctx.current_p_index + 1),
                  index |-> ctx.current_p_index + 1,
                  ExternalPressure |-> RMul(ctx.pressures[ctx.current_p_index + 1], Bar2Pa),
                  retrieved_parent_folder |->
                      IF ctx.current_p_index > 0
                      THEN ctx.raspa_gcmc[1].label
                      ELSE ""])
    /\ ctx' = [ctx EXCEPT !.current_p_index = @ + 1]
    /\ iso_pc' = "should_run_another_gcmc"
    /\ UNCHANGED <<iso_status, iso_inputs, iso_outputs, iso_exception>>
    /\ UNCHANGED <<beVars, cppVars, mcVars>>

\* Variant of run_raspa_gcmc that counts its submissions in an index shared
\* with the binding-energy work chain.
run_raspa_gcmc_shared_index ==
    /\ IsoStep("run_raspa_gcmc")
    /\ IsoSubmit([key |-> "raspa_gcmc",
                  label |-> GcmcLabel(ctx.current_p_index + 1),
                  index |-> ctx.current_p_index + 1,
                  ExternalPressure |-> RMul(ctx.pressures[ctx.current_p_index + 1], Bar2Pa),
                  retrieved_parent_folder |->
                      IF ctx.current_p_index > 0
                      THEN ctx.raspa_gcmc[ctx.current_p_index].label
                      ELSE ""])
    /\ ctx' = [ctx EXCEPT !.current_p_index = @ + 1]
    /\ iso_pc' = "should_run_another_gcmc"
    /\ UNCHANGED <<iso_status, iso_inputs, iso_outputs, iso_exception>>
    /\ settings_idx' = settings_idx + 1
    /\ UNCHANGED <<pc, status, exit_code, protocol, starting_settings_idx, parameters,
                   settings_ok, settings_tag, cp2k_param, awaitables, stages, outputs,
                   reports>>
    /\ UNCHANGED <<cppVars, mcVars>>

run_raspa_gcmc ==
    /\ IsoStep("run_raspa_gcmc")
    /\ IsoSubmit([key |-> "raspa_gcmc",
                  label |-> GcmcLabel(ctx.current_p_index + 1),
                  index |-> ctx.current_p_index + 1,
                  ExternalPressure |-> RMul(ctx.pressures[ctx.current_p_index + 1], Bar2Pa),
                  retrieved_parent_folder |->
                      IF ctx.current_p_index > 0
                      THEN ctx.raspa_gcmc[ctx.current_p_index].label
                      ELSE ""])
    /\ ctx' = [ctx EXCEPT !.current_p_index = @ + 1]
    /\ iso_pc' = "should_run_another_gcmc"
    /\ UNCHANGED <<iso_status, iso_inputs, iso_outputs, iso_exception>>
    /\ UNCHANGED <<beVars, cppVars, mcVars>>

return_output_parameters ==
    /\ IsoStep("return_output_parameters")
    /\ LET with_widom == ctx.geom.is_porous /\ ~(ctx.multitemp_mode = "run_geom_only")
           with_gcmc == with_widom /\ ctx.is_kh_enough
           r == get_output_parameters_isotherm(
                    ctx.geom, ctx.parameters,
                    IF with_widom
                    THEN [exists |-> TRUE,
                          henry_coefficient_average |->
                              ctx.raspa_widom.outputs.henry_coefficient_average]
                    ELSE NoNode,
                    IF with_gcmc THEN ctx.pressures ELSE <<>>,
                    IF with_gcmc THEN ctx.raspa_gcmc ELSE <<>>)
       IN IF with_gcmc /\ "raspa_gcmc" \notin ctx.keys
          THEN Excepted("AttributeError")
          ELSE IF with_gcmc /\ \E i \in DOMAIN ctx.raspa_gcmc : ~ctx.raspa_gcmc[i].has_output
          THEN Excepted("NotExistentAttributeError")
          ELSE IF r.error # ""
          THEN Excepted(r.error)
          ELSE /\ iso_outputs' = [iso_outputs EXCEPT
                                    !.keys = @ \cup {"output_parameters"},
                                    !.output_parameters = r.dict]
               /\ ctx' = IF with_gcmc THEN ctx ELSE [ctx EXCEPT !.pressures = <<>>]
               /\ iso_status' = "finished"
               /\ iso_pc' = "end"
               /\ UNCHANGED <<iso_inputs, iso_awaitables, iso_called, iso_exception>>
    /\ UNCHANGED <<beVars, cppVars, mcVars>>

IsoNext ==
    \/ setup_isotherm
    \/ run_zeopp
    \/ resolve_isotherm
    \/ should_run_widom
    \/ run_raspa_widom
    \/ should_run_gcmc
    \/ init_raspa_gcmc
    \/ should_run_another_gcmc
    \/ run_raspa_gcmc
    \/ return_output_parameters

SpecIso == IsoInit /\ [][IsoNext]_vars

(***************************************************************************)
(* IsothermWorkChain: properties                                           *)
(***************************************************************************)
\* Number of calculations submitted under a context key.
IsoCount(key) == Cardinality({ i \in DOMAIN iso_called : iso_called[i].key = key })

\* The attribute k of self.ctx was assigned.
CtxHas(k) == iso_pc \notin {"idle", "setup"} /\ k \in ctx.keys

IsoFinished == iso_status = "finished"

Record == iso_outputs.output_parameters

\* The Zeo++ stage ran and its result has no accessible volume.
ScreeningNotPorous ==
    /\ CtxHas("zeopp")
    /\ ctx.zeopp.has_output
    /\ ~get_geometric_dict(ctx.zeopp.outputs, ctx.molecule).is_porous

\* C12 as stated: after a screening stage that reports is_porous false no
\* Widom and no GCMC job is submitted and the record is {"is_porous": false}
\* only.
C12_ScenarioB_AsStated ==
    ScreeningNotPorous
    => ( /\ IsoCount("raspa_widom") = 0
         /\ IsoCount("raspa_gcmc") = 0
         /\ iso_pc = "end" => ( /\ IsoFinished
                                /\ Record.keys = {"is_porous"}
                                /\ Record.is_porous = FALSE ) )

\* C12: after a screening stage that reports is_porous false no Widom and
\* no GCMC job is submitted, the run finishes, and the record is the
\* geometric dictionary (the Zeo++ keys, Estimated_saturation_loading and
\* is_porous = false) with no Henry-coefficient and no isotherm key.
C12_ScenarioB ==
    ScreeningNotPorous
    => ( /\ IsoCount("raspa_widom") = 0
         /\ IsoCount("raspa_gcmc") = 0
         /\ IsoCount("zeopp") = 1
         /\ iso_pc = "end" => ( /\ IsoFinished
                                /\ Record.keys = ZeoppKeys \cup GeometricKeys
                                /\ Record.is_porous = FALSE
                                /\ Record.keys \cap (WidomKeys \cup IsothermKeys) = {} ) )

C12_Witness ==
    /\ ScreeningNotPorous
    /\ IsoFinished
    /\ "output_parameters" \in iso_outputs.keys
    /\ ctx.multitemp_mode = "None"

\* The reference stage resolved with a Henry coefficient below raspa_minKh
\* for a framework with accessible volume.
KhBelowMinimum ==
    /\ CtxHas("geom")
    /\ ctx.geom.is_porous
    /\ CtxHas("raspa_widom")
    /\ ctx.raspa_widom.has_output
    /\ RLt(ctx.raspa_widom.outputs.henry_coefficient_average, ctx.parameters.raspa_minKh)

\* C13: with accessible volume and a Henry coefficient below raspa_minKh
\* exactly one Widom job and no GCMC job is submitted, the run finishes and
\* the record has is_porous = true, is_kh_enough = false and no isotherm.
C13_ScenarioC ==
    KhBelowMinimum
    => ( /\ IsoCount("raspa_widom") = 1
         /\ IsoCount("raspa_gcmc") = 0
         /\ iso_pc = "end" => ( /\ IsoFinished
                                /\ Record.is_porous = TRUE
                                /\ "is_kh_enough" \in Record.keys
                                /\ Record.is_kh_enough = FALSE
                                /\ "isotherm" \notin Record.keys
                                /\ Record.isotherm = NoIsotherm ) )

C13_Witness ==
    /\ KhBelowMinimum
    /\ IsoFinished
    /\ "is_kh_enough" \in Record.keys

\* C14: in every mode a Widom job is submitted only if the geometric result
\* has is_porous true, and a GCMC job only if in addition the Henry
\* coefficient of the Widom job is strictly above raspa_minKh.
C14_Gates ==
    /\ IsoCount("raspa_widom") > 0 => (CtxHas("geom") /\ ctx.geom.is_porous)
    /\ IsoCount("raspa_gcmc") > 0
         => ( /\ CtxHas("geom") /\ ctx.geom.is_porous
              /\ CtxHas("raspa_widom") /\ ctx.raspa_widom.has_output
              /\ RLt(ctx.parameters.raspa_minKh,
                     ctx.raspa_widom.outputs.henry_coefficient_average) )

\* The Zeo++ stage ran and found blocking spheres, and should_run_widom ran.
ScreeningFoundSpheres ==
    /\ CtxHas("zeopp") /\ ctx.zeopp.has_output
    /\ ctx.zeopp.outputs.Number_of_blocking_spheres > 0
    /\ CtxHas("geom")

\* C15 as stated: the block file of a screening stage that found blocking
\* spheres is an output of the run whether or not the gate passed.
C15_BlockEmitted_AsStated ==
    ScreeningFoundSpheres => "block" \in iso_outputs.keys

\* C15: the block file is an output exactly when the screening stage ran and
\* found both accessible volume and blocking spheres, whether or not the
\* remaining phases run (geometry-only mode, Henry coefficient too small);
\* a screening stage that finds no accessible volume outputs no block file.
\* The record output_parameters is output by every run that ends without an
\* exception.
C15_BlockEmitted ==
    /\ "block" \in iso_outputs.keys
         <=> ( ScreeningFoundSpheres /\ ctx.geom.is_porous )
    /\ (iso_pc = "end" /\ iso_exception = "")
         => ( IsoFinished /\ "output_parameters" \in iso_outputs.keys )

\* The gate is false, the later phases are skipped and the block file is out.
C15_Witness ==
    /\ ScreeningFoundSpheres
    /\ IsoFinished
    /\ IsoCount("raspa_gcmc") = 0
    /\ "block" \in iso_outputs.keys
    /\ \/ ctx.multitemp_mode = "run_geom_only"
       \/ (CtxHas("is_kh_enough") /\ ~ctx.is_kh_enough)

\* Every calculation that resolved has its output_parameters.
AllJobsHaveOutput ==
    /\ CtxHas("zeopp") => ctx.zeopp.has_output
    /\ CtxHas("raspa_widom") => ctx.raspa_widom.has_output
    /\ CtxHas("raspa_gcmc") => \A i \in DOMAIN ctx.raspa_gcmc : ctx.raspa_gcmc[i].has_output

\* C16: for every outcome of the two gates, a run whose jobs all return
\* their results ends in return_output_parameters with the record output
\* and without an error.
C16_EarlyTerminationNotError ==
    (iso_pc = "end" /\ AllJobsHaveOutput)
    => ( /\ IsoFinished
         /\ iso_exception = ""
         /\ "output_parameters" \in iso_outputs.keys )

\* C17: the record always holds is_porous; it holds is_kh_enough iff the
\* Widom job ran; it holds the isotherm block iff the GCMC jobs ran.
C17_RecordKeys ==
    IsoFinished
    => ( /\ "is_porous" \in Record.keys
         /\ "is_kh_enough" \in Record.keys <=> IsoCount("raspa_widom") > 0
         /\ "isotherm" \in Record.keys <=> IsoCount("raspa_gcmc") > 0
         /\ "is_kh_enough" \notin Record.keys => Record.is_kh_enough = FALSE
         /\ "isotherm" \notin Record.keys => Record.isotherm = NoIsotherm )

\* The GCMC submissions so far.
GcmcCalls == SelectSeq(iso_called, LAMBDA c : c.key = "raspa_gcmc")

\* C20: with a pressure_list in the parameters, ctx.pressures is that list,
\* whatever the Henry coefficient, the saturation loading and the other
\* pressure parameters are, and the i-th GCMC job is run at its i-th point;
\* when the loop is over there is one job per point.
C20_PressureListVerbatim ==
    ( /\ iso_pc \notin {"idle", "setup"}
      /\ ctx.parameters.has_pressure_list )
    => ( /\ iso_pc # "choose_pressure_points"
         /\ iso_exception # "ZeroDivisionError"
         /\ iso_pc \in {"should_run_another_gcmc", "run_raspa_gcmc"}
              => ctx.pressures = ctx.parameters.pressure_list
         /\ Len(GcmcCalls) <= Len(ctx.parameters.pressure_list)
         /\ \A i \in DOMAIN GcmcCalls :
               /\ GcmcCalls[i].index = i
               /\ GcmcCalls[i].ExternalPressure
                    = RMul(ctx.parameters.pressure_list[i], Bar2Pa)
         /\ ( /\ iso_pc \in {"return_output_parameters", "end"}
              /\ CtxHas("pressures")
              /\ iso_awaitables = <<>>
              /\ iso_exception = "" )
              => Len(GcmcCalls) = Len(ctx.parameters.pressure_list)
         /\ (IsoFinished /\ "isotherm" \in Record.keys)
              => Record.isotherm.pressure = ctx.parameters.pressure_list )

C20_Witness ==
    /\ IsoFinished
    /\ ctx.parameters.has_pressure_list
    /\ ctx.parameters.pressure_list = <<R(3, 1), R(1, 1)>>
    /\ Len(GcmcCalls) = 2
    /\ GcmcCalls[2].ExternalPressure = R(100000, 1)
    /\ Record.isotherm.pressure = <<R(3, 1), R(1, 1)>>

\* C21: the first GCMC job has no restart reference; job i > 1 restarts from
\* the retrieved folder of job i - 1, which has resolved before job i is
\* submitted; at most one GCMC job is awaited at any time.
C21_RestartChain ==
    iso_pc \notin {"idle", "setup"}
    => ( /\ \A i \in DOMAIN GcmcCalls :
              /\ i = 1 => GcmcCalls[i].retrieved_parent_folder = ""
              /\ i > 1 => ( /\ Len(ctx.raspa_gcmc) >= i - 1
                            /\ ctx.raspa_gcmc[i - 1].label = GcmcLabel(i - 1)
                            /\ GcmcCalls[i].retrieved_parent_folder
                                 = ctx.raspa_gcmc[i - 1].label )
         /\ Len(GcmcCalls) - Len(ctx.raspa_gcmc)
              = Cardinality({ i \in DOMAIN iso_awaitables :
                                iso_awaitables[i].key = "raspa_gcmc" })
         /\ Len(GcmcCalls) - Len(ctx.raspa_gcmc) \in {0, 1}
         /\ Len(iso_awaitables) <= 1 )

\* The third job is awaited, restarted from the second.
C21_Witness ==
    /\ Len(GcmcCalls) = 3
    /\ GcmcCalls[3].retrieved_parent_folder = "RaspaGCMC_2"
    /\ GcmcCalls[1].retrieved_parent_folder = ""
    /\ Len(ctx.raspa_gcmc) = 2
    /\ iso_awaitables # <<>>

(***************************************************************************)
(* Part 3: MulticompAdsDesWorkChain (workchains/multicomp_ads_des.py),     *)
(* specification SpecMulti.  Outline:                                      *)
(*   setup, if_(should_run_zeopp)(run_zeopp, inspect_zeopp_calc),          *)
(*   run_raspa_gcmc_ads, run_raspa_gcmc_des, return_output_parameters      *)
(***************************************************************************)
\* The names of the components of the mixture, in the order of the
\* conditions dictionary.
Comps == <<"co2", "n2">>
CompSet == { Comps[i] : i \in DOMAIN Comps }

ZeoppLabel(comp) == "Zeopp_" \o comp

RNeg(x) == <<0 - x[1], x[2]>>
RSub(x, y) == RAdd(x, RNeg(y))

\* sum([f[c] for c in comps[1..n]])
RECURSIVE RSum(_, _, _)
RSum(f, comps, n) == IF n = 0 THEN R(0, 1) ELSE RAdd(RSum(f, comps, n - 1), f[comps[n]])

\* inputs.conditions
McConditions ==
    { [molfraction |-> [c \in CompSet |-> IF c = "co2" THEN R(x, 4) ELSE R(4 - x, 4)],
       adsorption |-> [temperature |-> 298, pressure |-> R(1, 1)],
       desorption |-> [temperature |-> 363, pressure |-> R(1, 10)]] : x \in {1, 2} }

\* The validated parameters.
McParameters == { [zeopp_probe_scaling |-> R(s, 1)] : s \in {0, 1} }

\* The inputs that pass the validation of the ports: structure is a
\* required input, so it is always given.
McInputs ==
    { [exists |-> TRUE, has_structure |-> TRUE, conditions |-> c, parameters |-> p] :
         c \in McConditions, p \in McParameters }

\* get_components_dict: name and molfraction of every component.
get_components_dict(conditions, isotparams) ==
    [c \in CompSet |-> [name |-> c, molfraction |-> conditions.molfraction[c]]]

\* A Zeo++ block calculation: finished ok or not, and the blocking spheres.
McZeoppOutcomes ==
    { [is_finished_ok |-> ok, Number_of_blocking_spheres |-> n] :
         ok \in BOOLEAN, n \in {0, 2} } \ { [is_finished_ok |-> FALSE,
                                             Number_of_blocking_spheres |-> 2] }

\* Loadings (molecules per unit cell) of the components in a GCMC result.
McLoadings ==
    { [c \in CompSet |-> IF c = "co2" THEN R(l[1], 1) ELSE R(l[2], 1)] :
         l \in { <<0, 0>>, <<3, 1>>, <<1, 0>>, <<2, 2>> } }

\* output_parameters of a multi-component GCMC job run in the given system
\* (framework_1 or box_1).
McGcmcOutputs(system) ==
    { [system |-> system,
       components |->
           [c \in CompSet |->
               [loading_absolute_average |-> l[c],
                loading_absolute_dev |-> R(1, 4),
                conversion_factor_molec_uc_to_mol_kg |-> R(1, 2),
                conversion_factor_molec_uc_to_cm3stp_cm3 |-> R(3, 1)]]] : l \in McLoadings }

\* The record before any key is set.
McEmptyRecord ==
    [keys |-> {},
     Number_of_blocking_spheres |-> <<>>,
     temperatures |-> <<>>,
     pressures |-> <<>>,
     composition |-> <<>>,
     loading_absolute_average |-> <<>>,
     loading_absolute_dev |-> <<>>,
     working_capacity |-> <<>>,
     loading_absolute_unit |-> ""]

\* tot_load_ads: the total adsorption loading over the components, from
\* the lists [adsorption, desorption] of loading_absolute_average.
tot_load_ads(avg) == RSum([c \in CompSet |-> avg[c][1]], Comps, Len(Comps))

\* Variant of comp_des computed from the loadings of the desorption phase.
comp_des_from_desorption(avg, comp) ==
    RDiv(avg[comp][2], RSum([c \in CompSet |-> avg[c][2]], Comps, Len(Comps)))

\* comp_des: the desorption composition of a component.
comp_des(avg, comp) == RDiv(avg[comp][1], tot_load_ads(avg))

\* Variant of work_cap that is the adsorption loading alone.
work_cap_adsorption_only(avg, comp) == avg[comp][1]

\* work_cap: adsorption loading minus desorption loading.
work_cap(avg, comp) == RSub(avg[comp][1], avg[comp][2])

\* get_output_parameters of multicomp_ads_des.py.  all_out_dicts holds the
\* labels given (Zeopp_<comp>, RaspaGCMC_Ads, RaspaGCMC_Des) and their
\* dictionaries; error is the exception raised, "" if none.
get_output_parameters_multicomp(inp_conditions, components, all_out_dicts) ==
    IF "RaspaGCMC_Ads" \notin all_out_dicts.labels \/ "RaspaGCMC_Des" \notin all_out_dicts.labels
    THEN [error |-> "KeyError", dict |-> McEmptyRecord]
    ELSE
    LET with_zeopp == { c \in CompSet : ZeoppLabel(c) \in all_out_dicts.labels }
        key_system == all_out_dicts.Ads.system
        load(phase, c, label) ==
            LET comp_out == phase.components[c]
                conv_load == IF key_system = "framework_1"
                             THEN comp_out.conversion_factor_molec_uc_to_mol_kg
                             ELSE comp_out.conversion_factor_molec_uc_to_cm3stp_cm3
            IN RMul(conv_load, comp_out[label])
        avg == [c \in CompSet |-> <<load(all_out_dicts.Ads, c, "loading_absolute_average"),
                                    load(all_out_dicts.Des, c, "loading_absolute_average")>>]
        dev == [c \in CompSet |-> <<load(all_out_dicts.Ads, c, "loading_absolute_dev"),
                                    load(all_out_dicts.Des, c, "loading_absolute_dev")>>]
    IN IF RIsZero(tot_load_ads(avg))
       THEN [error |-> "ZeroDivisionError", dict |-> McEmptyRecord]
       ELSE [error |-> "",
             dict |->
               [keys |-> (IF with_zeopp = {} THEN {}
                          ELSE {"Input_block", "Number_of_blocking_spheres"})
                         \cup {"temperatures", "temperatures_unit", "pressures",
                               "pressures_unit", "composition", "loading_absolute_average",
                               "loading_absolute_dev", "working_capacity",
                               "working_capacity_unit", "loading_absolute_unit"},
                Number_of_blocking_spheres |->
                    [c \in with_zeopp |-> all_out_dicts.zeopp[c].Number_of_blocking_spheres],
                temperatures |-> <<inp_conditions.adsorption.temperature,
                                   inp_conditions.desorption.temperature>>,
                pressures |-> <<inp_conditions.adsorption.pressure,
                                inp_conditions.desorption.pressure>>,
                composition |->
                    [c \in CompSet |-> <<components[c].molfraction,
                                         comp_des(avg, c)>>],
                loading_absolute_average |-> avg,
                loading_absolute_dev |-> dev,
                working_capacity |-> [c \in CompSet |-> work_cap(avg, c)],
                loading_absolute_unit |-> IF key_system = "framework_1" THEN "mol/kg"
                                          ELSE "(cm^3_STP/cm^3)"]]

McInit ==
    /\ mc_pc = "setup"
    /\ mc_status = "running"
    /\ mc_inputs \in McInputs
    /\ mc_ctx = NoNode
    /\ mc_awaitables = {}
    /\ mc_outputs = [keys |-> {}, block_files |-> {}, output_parameters |-> NoNode]
    /\ mc_called = <<>>
    /\ mc_exception = ""
    /\ BeIdle
    /\ IsoIdle
    /\ CppIdle

McExcepted(name) ==
    /\ mc_status' = "excepted"
    /\ mc_exception' = name
    /\ mc_pc' = "end"
    /\ UNCHANGED <<mc_inputs, mc_ctx, mc_awaitables, mc_outputs, mc_called>>

McStep(step) ==
    /\ mc_status = "running"
    /\ mc_pc = step
    /\ mc_awaitables = {}

setup_multicomp ==
    /\ McStep("setup")
    /\ mc_ctx' = [keys |-> {"sim_in_box", "parameters", "components", "ff_params"},
                  sim_in_box |-> ~mc_inputs.has_structure,
                  parameters |-> mc_inputs.parameters,
                  components |-> get_components_dict(mc_inputs.conditions,
                                                     mc_inputs.parameters),
                  zeopp |-> <<>>,
                  Ads |-> NoNode,
                  Des |-> NoNode,
                  raspa_inputs |-> NoNode,
                  raspa_param |-> NoNode]
    /\ mc_pc' = "should_run_zeopp"
    /\ UNCHANGED <<mc_status, mc_inputs, mc_awaitables, mc_outputs, mc_called, mc_exception>>
    /\ UNCHANGED <<beVars, isoVars, cppVars>>

should_run_zeopp ==
    /\ McStep("should_run_zeopp")
    /\ mc_pc' = IF ~mc_ctx.sim_in_box /\ RLt(R(0, 1), mc_ctx.parameters.zeopp_probe_scaling)
                THEN "run_zeopp"
                ELSE "run_raspa_gcmc_ads"
    /\ UNCHANGED <<mc_status, mc_inputs, mc_ctx, mc_awaitables, mc_outputs, mc_called,
                   mc_exception>>
    /\ UNCHANGED <<beVars, isoVars, cppVars>>

\* One ZeoppCalculation per component, all submitted in this step.
run_zeopp_multicomp ==
    /\ McStep("run_zeopp")
    /\ LET subs == [i \in DOMAIN Comps |->
                       [kind |-> "zeopp", comp |-> Comps[i], label |-> ZeoppLabel(Comps[i])]]
       IN /\ mc_awaitables' = { subs[i] : i \in DOMAIN Comps }
          /\ mc_called' = mc_called \o subs
    /\ mc_pc' = "inspect_zeopp_calc"
    /\ UNCHANGED <<mc_status, mc_inputs, mc_ctx, mc_outputs, mc_exception>>
    /\ UNCHANGED <<beVars, isoVars, cppVars>>

\* The engine: one of the awaited calculations ends and is stored in the
\* context under its label.
resolve_multicomp ==
    /\ mc_status = "running"
    /\ \E sub \in mc_awaitables :
         /\ mc_awaitables' = mc_awaitables \ {sub}
         /\ IF sub.kind = "zeopp"
            THEN \E o \in McZeoppOutcomes :
                   mc_ctx' = [mc_ctx EXCEPT
                                !.keys = @ \cup {sub.label},
                                !.zeopp = [c \in DOMAIN @ \cup {sub.comp} |->
                                              IF c = sub.comp THEN o ELSE @[c]]]
            ELSE \E p \in {[exists |-> TRUE, label |-> sub.label, has_output |-> FALSE,
                            outputs |-> NoNode]}
                          \cup {[exists |-> TRUE, label |-> sub.label, has_output |-> TRUE,
                                 outputs |-> o] : o \in McGcmcOutputs(sub.system)} :
                   mc_ctx' = IF sub.label = "RaspaGCMC_Ads"
                             THEN [mc_ctx EXCEPT !.keys = @ \cup {sub.label}, !.Ads = p]
                             ELSE [mc_ctx EXCEPT !.keys = @ \cup {sub.label}, !.Des = p]
    /\ UNCHANGED <<mc_pc, mc_status, mc_inputs, mc_outputs, mc_called, mc_exception>>
    /\ UNCHANGED <<beVars, isoVars, cppVars>>

\* Variant of inspect_zeopp_calc that goes on to the adsorption calculation
\* without testing is_finished_ok.
inspect_zeopp_calc_ignores_failure ==
    /\ McStep("inspect_zeopp_calc")
    /\ mc_outputs' =
         [mc_outputs EXCEPT
            !.block_files = { c \in CompSet :
                                mc_ctx.zeopp[c].Number_of_blocking_spheres > 0 }]
    /\ mc_pc' = "run_raspa_gcmc_ads"
    /\ UNCHANGED <<mc_status, mc_inputs, mc_ctx, mc_awaitables, mc_called, mc_exception>>
    /\ UNCHANGED <<beVars, isoVars, cppVars>>

inspect_zeopp_calc ==
    /\ McStep("inspect_zeopp_calc")
    /\ IF \E c \in CompSet : ~mc_ctx.zeopp[c].is_finished_ok
       THEN McExcepted("AssertionError")
       ELSE /\ mc_outputs' =
                 [mc_outputs EXCEPT
                    !.block_files = { c \in CompSet :
                                        mc_ctx.zeopp[c].Number_of_blocking_spheres > 0 }]
            /\ mc_pc' = "run_raspa_gcmc_ads"
            /\ UNCHANGED <<mc_status, mc_inputs, mc_ctx, mc_awaitables, mc_called,
                           mc_exception>>
    /\ UNCHANGED <<beVars, isoVars, cppVars>>

\* self.submit(RaspaBaseWorkChain, **self.ctx.raspa_inputs)
McGcmcSubmission(label, raspa_inputs, raspa_param) ==
    [kind |-> "gcmc", label |-> label, system |-> raspa_param.system,
     ExternalTemperature |-> raspa_param.ExternalTemperature,
     ExternalPressure |-> raspa_param.ExternalPressure,
     MolFraction |-> raspa_param.MolFraction,
     block_pocket |-> raspa_inputs.block_pocket,
     retrieved_parent_folder |-> raspa_inputs.retrieved_parent_folder]

run_raspa_gcmc_ads ==
    /\ McStep("run_raspa_gcmc_ads")
    /\ LET raspa_inputs ==
               [exists |-> TRUE,
                block_pocket |-> { c \in CompSet :
                                     /\ ZeoppLabel(c) \in mc_ctx.keys
                                     /\ mc_ctx.zeopp[c].Number_of_blocking_spheres > 0 },
                retrieved_parent_folder |-> ""]
           raspa_param ==
               [exists |-> TRUE,
                system |-> IF mc_ctx.sim_in_box THEN "box_1" ELSE "framework_1",
                ExternalTemperature |-> mc_inputs.conditions.adsorption.temperature,
                ExternalPressure |-> RMul(mc_inputs.conditions.adsorption.pressure, Bar2Pa),
                MolFraction |-> [c \in CompSet |-> mc_ctx.components[c].molfraction]]
           sub == McGcmcSubmission("RaspaGCMC_Ads", raspa_inputs, raspa_param)
       IN /\ mc_ctx' = [mc_ctx EXCEPT !.raspa_inputs = raspa_inputs,
                                      !.raspa_param = raspa_param,
                                      !.keys = @ \cup {"raspa_inputs", "raspa_param"}]
          /\ mc_awaitables' = {sub}
          /\ mc_called' = Append(mc_called, sub)
    /\ mc_pc' = "run_raspa_gcmc_des"
    /\ UNCHANGED <<mc_status, mc_inputs, mc_outputs, mc_exception>>
    /\ UNCHANGED <<beVars, isoVars, cppVars>>

run_raspa_gcmc_des ==
    /\ McStep("run_raspa_gcmc_des")
    /\ IF ~mc_ctx.Ads.has_output
       THEN McExcepted("NotExistentAttributeError")
       ELSE
       LET ads_results == mc_ctx.Ads.outputs.components
           ads_molecxuc_tot ==
               RSum([c \in CompSet |-> ads_results[c].loading_absolute_average],
                    Comps, Len(Comps))
           raspa_param ==
               [mc_ctx.raspa_param EXCEPT
                  !.ExternalTemperature = mc_inputs.conditions.desorption.temperature,
                  !.ExternalPressure = RMul(mc_inputs.conditions.desorption.pressure, Bar2Pa),
                  !.MolFraction = [c \in CompSet |->
                                      RDiv(ads_results[c].loading_absolute_average,
                                           ads_molecxuc_tot)]]
           raspa_inputs ==
               [mc_ctx.raspa_inputs EXCEPT !.retrieved_parent_folder = mc_ctx.Ads.label]
           sub == McGcmcSubmission("RaspaGCMC_Des", raspa_inputs, raspa_param)
       IN IF RIsZero(ads_molecxuc_tot)
          THEN McExcepted("ZeroDivisionError")
          ELSE /\ mc_ctx' = [mc_ctx EXCEPT !.raspa_inputs = raspa_inputs,
                                           !.raspa_param = raspa_param]
               /\ mc_awaitables' = {sub}
               /\ mc_called' = Append(mc_called, sub)
               /\ mc_pc' = "return_output_parameters"
               /\ UNCHANGED <<mc_status, mc_inputs, mc_outputs, mc_exception>>
    /\ UNCHANGED <<beVars, isoVars, cppVars>>

\* The dictionaries that return_output_parameters collects from the
\* context keys Zeopp_* and RaspaGCMC_*.
McAllOutDicts ==
    [labels |-> { k \in mc_ctx.keys :
                    k \in {"RaspaGCMC_Ads", "RaspaGCMC_Des"}
                          \cup { ZeoppLabel(c) : c \in CompSet } },
     zeopp |-> mc_ctx.zeopp,
     Ads |-> mc_ctx.Ads.outputs,
     Des |-> mc_ctx.Des.outputs]

return_output_parameters_multicomp ==
    /\ McStep("return_output_parameters")
    /\ IF ~mc_ctx.Ads.has_output \/ ~mc_ctx.Des.has_output
       THEN McExcepted("NotExistentAttributeError")
       ELSE LET r == get_output_parameters_multicomp(mc_inputs.conditions,
                                                     mc_ctx.components, McAllOutDicts)
            IN IF r.error # ""
               THEN McExcepted(r.error)
               ELSE /\ mc_outputs' = [mc_outputs EXCEPT
                                        !.keys = @ \cup {"output_parameters"},
                                        !.output_parameters = r.dict]
                    /\ mc_status' = "finished"
                    /\ mc_pc' = "end"
                    /\ UNCHANGED <<mc_inputs, mc_ctx, mc_awaitables, mc_called, mc_exception>>
    /\ UNCHANGED <<beVars, isoVars, cppVars>>

McNext ==
    \/ setup_multicomp
    \/ should_run_zeopp
    \/ run_zeopp_multicomp
    \/ resolve_multicomp
    \/ inspect_zeopp_calc
    \/ run_raspa_gcmc_ads
    \/ run_raspa_gcmc_des
    \/ return_output_parameters_multicomp

SpecMulti == McInit /\ [][McNext]_vars

(***************************************************************************)
(* MulticompAdsDesWorkChain: properties                                    *)
(***************************************************************************)
\* The positions in mc_called of the submissions with a label.
McCallsOf(label) == { i \in DOMAIN mc_called : mc_called[i].label = label }

McStarted == mc_pc \notin {"idle", "setup"}

\* Every calculation that resolved ended well and has its results.
McAllJobsOk ==
    /\ \A c \in DOMAIN mc_ctx.zeopp : mc_ctx.zeopp[c].is_finished_ok
    /\ mc_ctx.Ads.exists => mc_ctx.Ads.has_output
    /\ mc_ctx.Des.exists => mc_ctx.Des.has_output

\* The share of a component in the total adsorption loading (molecules per
\* unit cell) of a GCMC result.
AdsShare(out, c) ==
    RDiv(out.components[c].loading_absolute_average,
         RSum([d \in CompSet |-> out.components[d].loading_absolute_average],
              Comps, Len(Comps)))

\* C22: one adsorption and one desorption stage are submitted per run, in
\* that order; the desorption stage is submitted after the adsorption stage
\* resolved, with mole fractions computed from the adsorption loadings and
\* the adsorption stage's retrieved folder as restart; the adsorption stage
\* has no restart reference.
C22_AdsThenDes ==
    McStarted
    => ( /\ Cardinality(McCallsOf("RaspaGCMC_Ads")) <= 1
         /\ Cardinality(McCallsOf("RaspaGCMC_Des")) <= 1
         /\ \A i \in McCallsOf("RaspaGCMC_Ads") : mc_called[i].retrieved_parent_folder = ""
         /\ \A i \in McCallsOf("RaspaGCMC_Des") :
              /\ \E j \in McCallsOf("RaspaGCMC_Ads") : j < i
              /\ mc_ctx.Ads.exists /\ mc_ctx.Ads.has_output
              /\ mc_called[i].retrieved_parent_folder = "RaspaGCMC_Ads"
              /\ \A c \in CompSet :
                   mc_called[i].MolFraction[c] = AdsShare(mc_ctx.Ads.outputs, c)
         /\ (mc_pc = "end" /\ McAllJobsOk)
              => ( /\ Cardinality(McCallsOf("RaspaGCMC_Ads")) = 1
                   /\ Cardinality(McCallsOf("RaspaGCMC_Des")) = 1 ) )

(***************************************************************************)
(* get_output_parameters of multicomp_ads_des.py on a range of arguments   *)
(***************************************************************************)
\* The label sets of **all_out_dicts: each GCMC phase present or absent,
\* the Zeo++ results present for all components or for none.
McAggLabelSets ==
    { g \cup z : g \in SUBSET {"RaspaGCMC_Ads", "RaspaGCMC_Des"},
                 z \in { {}, { ZeoppLabel(c) : c \in CompSet } } }

McAggDicts ==
    UNION { { [labels |-> L,
               zeopp |-> IF ZeoppLabel(Comps[1]) \in L
                         THEN [c \in CompSet |->
                                 [is_finished_ok |-> TRUE,
                                  Number_of_blocking_spheres |-> IF c = "co2" THEN 2 ELSE 0]]
                         ELSE <<>>,
               Ads |-> a, Des |-> d] :
                 a \in IF "RaspaGCMC_Ads" \in L
                       THEN McGcmcOutputs("framework_1") \cup McGcmcOutputs("box_1")
                       ELSE {NoNode},
                 d \in IF "RaspaGCMC_Des" \in L
                       THEN McGcmcOutputs("framework_1") \cup McGcmcOutputs("box_1")
                       ELSE {NoNode} } : L \in McAggLabelSets }

McAggArgs ==
    { [exists |-> TRUE, inp_conditions |-> c,
       components |-> get_components_dict(c, NoNode), all_out_dicts |-> d] :
         c \in McConditions,
         d \in { x \in McAggDicts :
                   (x.Ads # NoNode /\ x.Des # NoNode) => x.Ads.system = x.Des.system } }

McAggInit ==
    /\ cpp_args \in McAggArgs
    /\ cpp_result = NoNode
    /\ BeIdle
    /\ IsoIdle
    /\ McIdle

\* One call of the calcfunction.
call_get_output_parameters_multicomp ==
    /\ cpp_args.exists
    /\ cpp_result = NoNode
    /\ LET r == get_output_parameters_multicomp(cpp_args.inp_conditions, cpp_args.components,
                                                cpp_args.all_out_dicts)
       IN cpp_result' = [exists |-> TRUE, error |-> r.error, dict |-> r.dict]
    /\ UNCHANGED <<cpp_args, beVars, isoVars, mcVars>>

McAggNext == call_get_output_parameters_multicomp

SpecAggMulti == McAggInit /\ [][McAggNext]_vars

\* Both GCMC phases are among the arguments of the call.
BothPhasesPresent ==
    {"RaspaGCMC_Ads", "RaspaGCMC_Des"} \subseteq cpp_args.all_out_dicts.labels

\* The loading (in the unit of the record) of a component in a phase result.
McLoad(out, c) ==
    RMul(IF out.system = "framework_1"
         THEN out.components[c].conversion_factor_molec_uc_to_mol_kg
         ELSE out.components[c].conversion_factor_molec_uc_to_cm3stp_cm3,
         out.components[c].loading_absolute_average)

McTotalAds == RSum([c \in CompSet |-> McLoad(cpp_args.all_out_dicts.Ads, c)],
                   Comps, Len(Comps))

C26_DesorptionComposition ==
    (cpp_result.exists /\ cpp_result.error = "")
    => \A c \in CompSet :
         /\ Len(cpp_result.dict.composition[c]) = 2
         /\ cpp_result.dict.composition[c][1] = cpp_args.inp_conditions.molfraction[c]
         /\ cpp_result.dict.composition[c][2]
              = RDiv(McLoad(cpp_args.all_out_dicts.Ads, c), McTotalAds)

\* Adsorption loadings (3, 1), desorption loadings (1, 0): the composition
\* is 3/4, not 1.
C26_Witness ==
    /\ cpp_result.exists
    /\ cpp_result.error = ""
    /\ cpp_args.all_out_dicts.Des.components["n2"].loading_absolute_average = R(0, 1)
    /\ cpp_args.all_out_dicts.Des.components["co2"].loading_absolute_average = R(1, 1)
    /\ cpp_result.dict.composition["co2"][2] = R(3, 4)

(***************************************************************************)
(* get_output_parameters of isotherm.py on a range of arguments            *)
(***************************************************************************)
\* Pressure sequences with the GCMC results RaspaGCMC_1.. of their points;
\* the empty pair stands for pressures=None and no GCMC result.
IsoAggSamples ==
    { <<<<>>, <<>>>> }
    \cup { << <<R(1, 1)>>, <<Process([label |-> GcmcLabel(1)], TRUE, o)>> >> :
              o \in GcmcOutputs }
    \cup { << <<R(1, 1), R(2, 1)>>,
              <<Process([label |-> GcmcLabel(1)], TRUE, o1),
                Process([label |-> GcmcLabel(2)], TRUE, o2)>> >> :
              o1 \in GcmcOutputs, o2 \in GcmcOutputs }

IsoAggArgs ==
    { [exists |-> TRUE, geom_out |-> g, inp_params |-> ip, widom_out |-> w,
       pressures |-> s[1], gcmc |-> s[2]] :
         g \in IsoGeometrics \ {NoNode},
         ip \in { x \in IsoParameters : ~x.has_pressure_list /\ ~x.has_temperature_list },
         w \in {NoNode} \cup { [exists |-> TRUE,
                                henry_coefficient_average |-> o.henry_coefficient_average] :
                                  o \in WidomOutputs },
         s \in IsoAggSamples }

IsoAggInit ==
    /\ cpp_args \in IsoAggArgs
    /\ cpp_result = NoNode
    /\ BeIdle
    /\ IsoIdle
    /\ McIdle

\* A call of the calcfunction on the arguments; it is called twice, and the
\* first and the last returned value are kept.
call_get_output_parameters_isotherm ==
    /\ cpp_args.exists
    /\ IF cpp_result.exists THEN cpp_result.calls < 2 ELSE TRUE
    /\ LET r == get_output_parameters_isotherm(cpp_args.geom_out, cpp_args.inp_params,
                                               cpp_args.widom_out, cpp_args.pressures,
                                               cpp_args.gcmc)
       IN cpp_result' = [exists |-> TRUE,
                         calls |-> IF cpp_result.exists THEN cpp_result.calls + 1 ELSE 1,
                         first |-> IF cpp_result.exists THEN cpp_result.first ELSE r,
                         last |-> r]
    /\ UNCHANGED <<cpp_args, beVars, isoVars, mcVars>>

IsoAggNext == call_get_output_parameters_isotherm

SpecAggIso == IsoAggInit /\ [][IsoAggNext]_vars

\* The arguments of a run in which only the screening phase ran: no Widom
\* result, no pressures, no GCMC result.
OnlyScreeningRan ==
    /\ ~cpp_args.widom_out.exists
    /\ cpp_args.pressures = <<>>
    /\ cpp_args.gcmc = <<>>

WidomGateDefined(c) ==
    \/ c.multitemp_mode = "run_single_temp"
    \/ (c.zeopp.exists /\ c.zeopp.has_output)

WidomGate(c) ==
    IF c.multitemp_mode = "run_single_temp"
    THEN TRUE
    ELSE /\ get_geometric_dict(c.zeopp.outputs, c.molecule).is_porous
         /\ ~(c.multitemp_mode = "run_geom_only")

\* The value that should_run_gcmc returns in a context c, defined once the
\* Widom job returned its result.
GcmcGateDefined(c) == c.raspa_widom.exists /\ c.raspa_widom.has_output

GcmcGate(c) ==
    RLt(c.parameters.raspa_minKh, c.raspa_widom.outputs.henry_coefficient_average)

IsoStarted == iso_pc \notin {"idle", "setup"}

\* C25: the verdict of should_run_widom is a function of the geometric
\* result (and the mode of the run), the verdict of should_run_gcmc a
\* function of the Widom result and raspa_minKh: the step taken by a gate
\* is the one its verdict names, and evaluating the gate again, after its
\* own effects on the context or after any later step, gives the same
\* verdict.
C25_GatePurity ==
    [][ IsoStarted =>
        /\ ( /\ IsoStep("should_run_widom")
             /\ iso_pc' # "should_run_widom"
             /\ iso_exception' = "" )
             => ( /\ WidomGateDefined(ctx)
                  /\ (iso_pc' = "run_raspa_widom") <=> WidomGate(ctx)
                  /\ (iso_pc' = "return_output_parameters") <=> ~WidomGate(ctx)
                  /\ WidomGate(ctx') = WidomGate(ctx) )
        /\ ( /\ IsoStep("should_run_gcmc")
             /\ iso_pc' # "should_run_gcmc"
             /\ iso_exception' = "" )
             => ( /\ GcmcGateDefined(ctx)
                  /\ (iso_pc' = "init_raspa_gcmc") <=> GcmcGate(ctx)
                  /\ (iso_pc' = "return_output_parameters") <=> ~GcmcGate(ctx)
                  /\ ctx'.is_kh_enough = GcmcGate(ctx)
                  /\ GcmcGate(ctx') = GcmcGate(ctx) )
        /\ WidomGateDefined(ctx)
             => (WidomGateDefined(ctx') /\ WidomGate(ctx') = WidomGate(ctx))
        /\ GcmcGateDefined(ctx)
             => (GcmcGateDefined(ctx') /\ GcmcGate(ctx') = GcmcGate(ctx))
      ]_vars

\* Both gates were evaluated and passed, and later steps ran.
C25_Witness ==
    /\ IsoFinished
    /\ CtxHas("is_kh_enough")
    /\ ctx.is_kh_enough
    /\ GcmcGate(ctx)
    /\ WidomGate(ctx)
    /\ IsoCount("raspa_gcmc") > 0

(***************************************************************************)
(* Cp2kBindingEnergyWorkChain: the merged configuration                    *)
(***************************************************************************)
\* The profiles settings_0 .. settings_k of a ladder merged in this order.
RECURSIVE LadderMerge(_, _)
LadderMerge(prot, k) ==
    IF k = 0
    THEN prot.settings[0]
    ELSE dict_merge(LadderMerge(prot, k - 1), prot.settings[k])

\* The parameters of the n-th geometry optimisation that was submitted: the
\* geometry attempts are the first entries of ctx.stages, the one in flight
\* follows them.
GeoAttempt(n) ==
    IF n <= Len(stages) THEN stages[n].parameters ELSE awaitables[1].parameters

\* C27: each RetryEscalate verdict at index k-1 with settings_k in the
\* ladder is followed by an attempt at index k, and the configuration
\* submitted for the attempt at index k carries, for every key set by one
\* of the profiles 0..k and not by the user's parameters, the value of
\* deep-merging profile 0, then 1, ..., then k: profile k wins.
C27_LadderMergeOrder ==
    /\ \A n \in 1..NumSubmitted(GeoLabel) :
          LET k == starting_settings_idx + n - 1
          IN /\ (0..k) \subseteq DOMAIN protocol.settings
             /\ \A key \in Keys :
                   (LadderMerge(protocol, k)[key] # Absent /\ parameters[key] = Absent)
                   => GeoAttempt(n)[key] = LadderMerge(protocol, k)[key]
             /\ \A key \in Keys :
                   (protocol.settings[k][key] # Absent /\ parameters[key] = Absent)
                   => GeoAttempt(n)[key] = protocol.settings[k][key]
    /\ ( /\ JustInspected
         /\ IsRetryEscalate(LastStage.outputs)
         /\ settings_idx \in DOMAIN protocol.settings )
       => ( /\ status = "running"
            /\ cp2k_param["CUTOFF"] \in {SettingsTag(settings_idx), "user"} )

(***************************************************************************)
(* choose_pressure_points: the steps of the sequence                       *)
(***************************************************************************)
\* The step the single-site Langmuir model takes from the point p.
LangmuirStep(args, p) ==
    RMin(args.inp_param.pressure_maxstep,
         RMul(args.inp_param.pressure_precision,
              RAdd(RAdd(RMul(BValue(args), RMul(p, p)), RMul(R(2, 1), p)),
                   RInv(BValue(args)))))

\* C28: for pressure_min <= pressure_max and positive steepness, step cap
\* and precision the returned sequence starts at pressure_min, never
\* decreases, stays at or below pressure_max, has no gap above
\* pressure_maxstep, and every gap but the last is
\* min(maxStep, precision * (b*p^2 + 2p + 1/b)) at the preceding point p.
C28_SamplerSteps ==
    (cpp_result.exists /\ SamplerDomain(cpp_args))
    => LET s == cpp_result.points
       IN /\ cpp_result.done
          /\ cpp_result.error = ""
          /\ Len(s) >= 2
          /\ s[1] = cpp_args.inp_param.pressure_min
          /\ \A i \in 1..Len(s) : RLeq(s[i], cpp_args.inp_param.pressure_max)
          /\ \A i \in 1..(Len(s) - 1) :
                /\ RLeq(s[i], s[i + 1])
                /\ RLeq(RSub(s[i + 1], s[i]), cpp_args.inp_param.pressure_maxstep)
                /\ i < Len(s) - 1 => RSub(s[i + 1], s[i]) = LangmuirStep(cpp_args, s[i])

\* A sequence with several generated points whose steps differ: one of
\* them is capped by pressure_maxstep, another is not.
C28_Witness ==
    /\ cpp_result.exists
    /\ SamplerDomain(cpp_args)
    /\ cpp_result.done
    /\ Len(cpp_result.points) >= 4
    /\ \E i \in 1..(Len(cpp_result.points) - 2) :
          RSub(cpp_result.points[i + 1], cpp_result.points[i])
             = cpp_args.inp_param.pressure_maxstep
    /\ \E i \in 1..(Len(cpp_result.points) - 2) :
          RLt(RSub(cpp_result.points[i + 1], cpp_result.points[i]),
              cpp_args.inp_param.pressure_maxstep)

(***************************************************************************)
(* Cp2kBindingEnergyWorkChain: the profiles of the protocol                *)
(***************************************************************************)
\* C29: no step changes the protocol: after every step each profile
\* settings_i it holds has the content it was loaded with, whatever was
\* merged into the running configuration (the profiles up to the starting
\* index, the user's parameters, the BSSE section).
C29_ProfilesReadOnly ==
    [][ /\ protocol' = protocol
        /\ \A i \in DOMAIN protocol'.settings : protocol'.settings[i] = Profile(i)
      ]_vars

\* A run that ended with its results after merging settings_1.. onto the
\* copy of settings_0, the user's parameters and the BSSE section: the
\* running configuration differs from every profile.
C29_Witness ==
    /\ pc = "end"
    /\ status = "finished"
    /\ outputs.output_parameters # {}
    /\ starting_settings_idx >= 1
    /\ parameters # NoParameters
    /\ NumResolved(BsseLabel) = 1
    /\ cp2k_param["BSSE"] # Absent
    /\ cp2k_param["CUTOFF"] = "user"
    /\ \A i \in DOMAIN protocol.settings :
          protocol.settings[i] = Profile(i) /\ protocol.settings[i] # cp2k_param

(***************************************************************************)
(* Two work chains running side by side                                    *)
(***************************************************************************)
\* A Cp2kBindingEnergyWorkChain and an IsothermWorkChain were both
\* submitted: each has its own inputs and its own context.
PairInit ==
    /\ pc = "setup"
    /\ status = "running"
    /\ exit_code = 0
    /\ protocol \in {p \in Protocols : DOMAIN p.settings = 0..MaxIdx}
    /\ starting_settings_idx \in 0..1
    /\ parameters \in UserParameters
    /\ settings_ok = FALSE
    /\ settings_idx = 0
    /\ settings_tag = 0
    /\ cp2k_param = EmptyDict
    /\ awaitables = <<>>
    /\ stages = <<>>
    /\ outputs = NoOutputs
    /\ reports = <<>>
    /\ iso_pc = "setup"
    /\ iso_status = "running"
    /\ iso_inputs \in {i \in IsoInputs : /\ i.geometric = NoNode
                                         /\ ~i.parameters.has_temperature_list
                                         /\ ~i.parameters.has_pressure_list}
    /\ ctx = NoNode
    /\ iso_awaitables = <<>>
    /\ iso_outputs = [keys |-> {}, output_parameters |-> NoNode]
    /\ iso_called = <<>>
    /\ iso_exception = ""
    /\ CppIdle
    /\ McIdle

\* The engine runs one step of one of the two work chains at a time, in any
\* order.
PairNext == Next \/ IsoNext

SpecPair == PairInit /\ [][PairNext]_vars

RECURSIVE HighestContiguous(_, _)
HighestContiguous(prot, n) ==
    IF n \in DOMAIN prot.settings THEN HighestContiguous(prot, n + 1) ELSE n - 1

\* C31: a run that stopped ended after the correction stage or with one of
\* the three error codes, and a run started at index s never submits more
\* than (highest contiguous ladder index) - s + 1 geometry optimisations.
C31_BoundedRetries ==
    /\ Terminated
       => ( /\ pc = "end"
            /\ awaitables = <<>>
            /\ \/ exit_code \in {ERROR_MISSING_INITIAL_SETTINGS, ERROR_NO_MORE_SETTINGS,
                                 ERROR_PARSING_OUTPUT}
               \/ (exit_code = 0 /\ NumResolved(BsseLabel) = 1) )
    /\ LET bound == HighestContiguous(protocol, 0) - starting_settings_idx + 1
       IN NumSubmitted(GeoLabel) <= (IF bound < 0 THEN 0 ELSE bound)

(***************************************************************************)
(* IsothermWorkChain: the GCMC loop                                        *)
(***************************************************************************)
\* The engine goes on running the steps of the loop, and every submitted
\* job resolves.
SpecIsoFair ==
    /\ IsoInit
    /\ [][IsoNext]_vars
    /\ WF_vars(should_run_another_gcmc)
    /\ WF_vars(run_raspa_gcmc)
    /\ WF_vars(resolve_isotherm)

\* The GCMC loop is running: the pressures were chosen.
InGcmcLoop == iso_pc \in {"should_run_another_gcmc", "run_raspa_gcmc"}

\* The state of the GCMC loop agrees with the pressure sequence.
GcmcLoopInvariant ==
    /\ CtxHas("current_p_index") => ctx.current_p_index = Len(GcmcCalls)
    /\ ~CtxHas("current_p_index") => Len(GcmcCalls) = 0
    /\ \A i \in DOMAIN GcmcCalls :
          /\ GcmcCalls[i].label = GcmcLabel(i)
          /\ GcmcCalls[i].index = i
    /\ (InGcmcLoop \/ (iso_pc = "return_output_parameters" /\ CtxHas("pressures")))
       => ( /\ Len(GcmcCalls) <= Len(ctx.pressures)
            /\ \A i \in DOMAIN GcmcCalls :
                  GcmcCalls[i].ExternalPressure = RMul(ctx.pressures[i], Bar2Pa)
            /\ (iso_pc = "return_output_parameters" /\ iso_awaitables = <<>>)
                  => Len(GcmcCalls) = Len(ctx.pressures) )

\* C32: the i-th GCMC job is labelled RaspaGCMC_i and runs at the i-th
\* point of ctx.pressures, current_p_index is the number of GCMC jobs
\* submitted so far, and the loop, once entered, ends at
\* return_output_parameters with as many jobs submitted as there are
\* points.
C32_GcmcLoop ==
    /\ []GcmcLoopInvariant
    /\ InGcmcLoop ~> ( /\ iso_pc = "return_output_parameters"
                       /\ iso_awaitables = <<>>
                       /\ Len(GcmcCalls) = Len(ctx.pressures) )

\* The loop ended after three jobs for a sequence of three points.
C32_Witness ==
    /\ iso_pc = "return_output_parameters"
    /\ iso_awaitables = <<>>
    /\ CtxHas("pressures")
    /\ Len(ctx.pressures) = 3
    /\ Len(GcmcCalls) = 3
    /\ ctx.current_p_index = 3
    /\ GcmcCalls[3].label = "RaspaGCMC_3"

(***************************************************************************)
(* IsothermWorkChain: the record and the jobs that ran                     *)
(***************************************************************************)
\* C33: in every finished run the record holds the keys taken from the
\* Widom result if and only if a Widom job was submitted, its is_kh_enough
\* is the value should_run_gcmc returned, and it holds the isotherm block
\* (with the conversion factors) if and only if GCMC jobs were submitted.
C33_RecordAgreesWithRun ==
    IsoFinished
    => ( /\ (IsoCount("raspa_widom") > 0) <=> (WidomKeys \subseteq Record.keys)
         /\ (IsoCount("raspa_widom") = 0) <=> (WidomKeys \cap Record.keys = {})
         /\ CtxHas("is_kh_enough")
               => ( /\ "is_kh_enough" \in Record.keys
                    /\ Record.is_kh_enough = ctx.is_kh_enough
                    /\ ctx.is_kh_enough = GcmcGate(ctx) )
         /\ (IsoCount("raspa_gcmc") > 0) <=> (IsothermKeys \subseteq Record.keys)
         /\ (IsoCount("raspa_gcmc") = 0) <=> ("isotherm" \notin Record.keys) )

\* Both gates passed and the run is over: is_kh_enough was set to True and
\* every job returned its results.
BothGatesPassed ==
    /\ iso_pc = "end"
    /\ CtxHas("is_kh_enough")
    /\ ctx.is_kh_enough
    /\ AllJobsHaveOutput

\* C34: when both gates passed, for every pressure sequence, the empty one
\* included, the record is emitted and the pressure list and the four
\* per-point lists of its isotherm block have as many entries as the
\* sequence, the i-th entry computed from the result of RaspaGCMC_i, with
\* None for an enthalpy that RASPA did not return.
C34_IsothermLengths ==
    BothGatesPassed
    => ( /\ IsoFinished
         /\ CtxHas("pressures")
         /\ "isotherm" \in Record.keys
         /\ LET n == Len(ctx.pressures)
                iso == Record.isotherm
            IN /\ iso.pressure = ctx.pressures
               /\ Len(iso.loading_absolute_average) = n
               /\ Len(iso.loading_absolute_dev) = n
               /\ Len(iso.enthalpy_of_adsorption_average) = n
               /\ Len(iso.enthalpy_of_adsorption_dev) = n
               /\ Len(GcmcCalls) = n
               /\ \A i \in 1..n :
                     LET out == ctx.raspa_gcmc[i].outputs
                     IN /\ ctx.raspa_gcmc[i].label = GcmcLabel(i)
                        /\ iso.loading_absolute_average[i] =
                              RMul(out.conversion_factor_molec_uc_to_mol_kg,
                                   out.loading_absolute_average)
                        /\ iso.loading_absolute_dev[i] =
                              RMul(out.conversion_factor_molec_uc_to_mol_kg,
                                   out.loading_absolute_dev)
                        /\ iso.enthalpy_of_adsorption_average[i] =
                              (IF Falsy(out.enthalpy_of_adsorption_average) THEN None
                               ELSE RMul(conv_ener, out.enthalpy_of_adsorption_average))
                        /\ iso.enthalpy_of_adsorption_dev[i] =
                              (IF Falsy(out.enthalpy_of_adsorption_dev) THEN None
                               ELSE RMul(conv_ener, out.enthalpy_of_adsorption_dev)) )

(***************************************************************************)
(* Cp2kBindingEnergyWorkChain: the list of stages                          *)
(***************************************************************************)
\* The BSSE calculation resolved: the results step is reached.
ReachedResults ==
    /\ NumResolved(BsseLabel) = 1
    /\ awaitables = <<>>
    /\ pc \in {"results", "end"}

\* C35: when the results step is reached ctx.stages holds the geometry
\* attempts followed by the one BSSE stage; the second-to-last stage is the
\* accepted attempt, whose output structure was given to the BSSE stage and
\* from which loaded_structure and the geometry fields of the record are
\* taken; the BSSE fields come from the last stage.
C35_StageList ==
    ReachedResults
    => LET n == Len(stages)
       IN /\ n = NumResolved(GeoLabel) + 1
          /\ n >= 2
          /\ \A i \in 1..(n - 1) : stages[i].label = GeoLabel
          /\ stages[n].label = BsseLabel
          /\ IsAccept(stages[n - 1].outputs)
          /\ stages[n - 1].out_label = ""
          /\ \A i \in 1..(n - 2) : ~IsAccept(stages[i].outputs)
          /\ stages[n].structure = n - 1
          /\ outputs.output_parameters # {}
             => ( /\ outputs.geo_from = n - 1
                  /\ outputs.loaded_structure = n - 1
                  /\ outputs.bsse_from = n )

\* The record was emitted from a list of two stages.
C35_Witness ==
    /\ ReachedResults
    /\ pc = "end"
    /\ status = "finished"
    /\ outputs.output_parameters # {}
    /\ Len(stages) = 2
    /\ outputs.loaded_structure = 1
    /\ stages[2].structure = 1

(***************************************************************************)
(* Cp2kBindingEnergyWorkChain: the user's parameters                       *)
(***************************************************************************)
\* Every configuration that was submitted, in flight or resolved.
SubmittedParameters ==
    { stages[i].parameters : i \in DOMAIN stages }
    \cup { awaitables[i].parameters : i \in DOMAIN awaitables }

\* C36: the user's parameters are merged last before every submission: in
\* the configuration of every geometry attempt and of the BSSE stage each
\* key set by the user carries the user's value, whatever profiles were
\* merged before, and the running configuration is the submitted one.
C36_UserOverrides ==
    /\ \A param \in SubmittedParameters :
          \A key \in Keys : parameters[key] # Absent => param[key] = parameters[key]
    /\ awaitables # <<>> => cp2k_param = awaitables[1].parameters

\* The user overrides CUTOFF, which every profile sets; a geometry attempt
\* started at settings_1 and the BSSE stage were submitted with the user's
\* value.
C36_Witness ==
    /\ parameters["CUTOFF"] = "user"
    /\ starting_settings_idx >= 1
    /\ starting_settings_idx \in DOMAIN protocol.settings
    /\ protocol.settings[starting_settings_idx]["CUTOFF"] # Absent
    /\ NumResolved(GeoLabel) >= 1
    /\ NumResolved(BsseLabel) = 1
    /\ \A i \in DOMAIN stages : stages[i].parameters["CUTOFF"] = "user"

(***************************************************************************)
(* choose_pressure_points: the end of the loop                             *)
(***************************************************************************)
\* The loop is called with a positive steepness and without pressure_list.
LoopCalled(args) ==
    /\ ~args.inp_param.has_pressure_list
    /\ RLt(R(0, 1), BValue(args))

\* The step of the loop is zero at every point.
ZeroStep(args) ==
    \/ RIsZero(args.inp_param.pressure_maxstep)
    \/ RIsZero(args.inp_param.pressure_precision)

\* The loop made no progress: every point it appended is pressure_min, so
\* it repeats the same iteration for ever.
NeverEnds(res, args) ==
    /\ ~res.done
    /\ \A i \in DOMAIN res.points : res.points[i] = args.inp_param.pressure_min

DesorptionPrepared ==
    /\ mc_pc \in {"return_output_parameters", "end"}
    /\ mc_ctx.Ads.exists
    /\ mc_ctx.Ads.has_output

\* C38: for every adsorption result, one of zero total loading included,
\* the desorption calculation is submitted, its mole fractions are the
\* components' shares of the total adsorption loading and sum to one, and
\* the final record reports the same values as the composition at
\* desorption.
C38_DesorptionFractions ==
    /\ DesorptionPrepared
       => ( /\ mc_exception # "ZeroDivisionError"
            /\ Cardinality(McCallsOf("RaspaGCMC_Des")) = 1 )
    /\ \A i \in McCallsOf("RaspaGCMC_Des") :
          /\ RSum(mc_called[i].MolFraction, Comps, Len(Comps)) = R(1, 1)
          /\ \A c \in CompSet :
                mc_called[i].MolFraction[c] = AdsShare(mc_ctx.Ads.outputs, c)
          /\ mc_status = "finished"
             => \A c \in CompSet :
                   mc_outputs.output_parameters.composition[c][2]
                      = mc_called[i].MolFraction[c]

(***************************************************************************)
(* IsothermWorkChain: the modes of IsothermMultiTempWorkChain              *)
(***************************************************************************)
\* C39: with inputs.geometric the mode is run_single_temp: no Zeo++
\* calculation is submitted and ctx.geom is the input; with temperature_list
\* in the parameters and no inputs.geometric the mode is run_geom_only: one
\* Zeo++ calculation and no Widom or GCMC calculation is submitted, porous
\* or not, and the record holds the keys of the geometric dictionary only.
C39_MultiTempModes ==
    IsoStarted
    => ( /\ (ctx.multitemp_mode = "run_single_temp") <=> iso_inputs.geometric.exists
         /\ (ctx.multitemp_mode = "run_geom_only")
               <=> ( /\ ~iso_inputs.geometric.exists
                     /\ iso_inputs.parameters.has_temperature_list )
         /\ ctx.multitemp_mode = "run_single_temp"
               => ( /\ IsoCount("zeopp") = 0
                    /\ ~CtxHas("zeopp")
                    /\ CtxHas("geom") => ctx.geom = iso_inputs.geometric
                    /\ IsoFinished => GeometricKeys \subseteq Record.keys )
         /\ ctx.multitemp_mode = "run_geom_only"
               => ( /\ IsoCount("zeopp") = (IF iso_pc = "run_zeopp" THEN 0 ELSE 1)
                    /\ IsoCount("raspa_widom") = 0
                    /\ IsoCount("raspa_gcmc") = 0
                    /\ IsoFinished
                         => ( /\ Record.keys = ZeoppKeys \cup GeometricKeys
                              /\ Record.is_porous = ctx.geom.is_porous
                              /\ "is_kh_enough" \notin Record.keys
                              /\ "isotherm" \notin Record.keys ) ) )

\* A porous framework screened in run_geom_only mode: the run ended after
\* the Zeo++ calculation alone.
C39_Witness ==
    /\ IsoFinished
    /\ ctx.multitemp_mode = "run_geom_only"
    /\ ctx.geom.is_porous
    /\ IsoCount("zeopp") = 1
    /\ Len(iso_called) = 1

(***************************************************************************)
(* MulticompAdsDesWorkChain: the screening phase as a fan-out with a join  *)
(***************************************************************************)
ScreeningWanted ==
    /\ mc_inputs.has_structure
    /\ RLt(R(0, 1), mc_inputs.parameters.zeopp_probe_scaling)

ZeoppCallsMulti == { i \in DOMAIN mc_called : mc_called[i].kind = "zeopp" }
GcmcCallsMulti == { i \in DOMAIN mc_called : mc_called[i].kind # "zeopp" }

\* Past the test of should_run_zeopp (and, when it passed, past run_zeopp).
ScreeningDecided == mc_pc \notin {"idle", "setup", "should_run_zeopp", "run_zeopp"}

ScreeningJoin ==
    /\ mc_pc = "run_zeopp" => ScreeningWanted /\ mc_called = <<>>
    /\ ScreeningDecided
         => /\ ZeoppCallsMulti # {} <=> ScreeningWanted
            /\ ScreeningWanted
                 => /\ \A i \in DOMAIN Comps :
                         /\ mc_called[i].kind = "zeopp"
                         /\ mc_called[i].label = ZeoppLabel(Comps[i])
                    /\ ZeoppCallsMulti = DOMAIN Comps
                    /\ \A c \in CompSet :
                         \/ \E sub \in mc_awaitables : sub.kind = "zeopp" /\ sub.comp = c
                         \/ ZeoppLabel(c) \in mc_ctx.keys
            /\ GcmcCallsMulti # {}
                 => /\ \A i \in GcmcCallsMulti : \A j \in ZeoppCallsMulti : j < i
                    /\ ScreeningWanted
                         => \A c \in CompSet :
                              /\ ZeoppLabel(c) \in mc_ctx.keys
                              /\ mc_ctx.zeopp[c].is_finished_ok
            /\ ( /\ ScreeningWanted
                 /\ \E c \in CompSet :
                      /\ ZeoppLabel(c) \in mc_ctx.keys
                      /\ ~mc_ctx.zeopp[c].is_finished_ok )
                 => /\ GcmcCallsMulti = {}
                    /\ mc_pc = "end" => mc_status = "excepted"
            /\ ~ScreeningWanted
                 => /\ \A c \in CompSet : ZeoppLabel(c) \notin mc_ctx.keys
                    /\ \A i \in DOMAIN mc_called :
                         mc_called[i].label = "RaspaGCMC_Ads"
                           => mc_called[i].block_pocket = {}
                    /\ mc_status = "finished"
                         => /\ "Input_block" \notin mc_outputs.output_parameters.keys
                            /\ "Number_of_blocking_spheres"
                                  \notin mc_outputs.output_parameters.keys

\* A step that submits a screening stage submits all of them: before it
\* none was submitted and none in flight, after it one per component is in
\* flight.
ScreeningFanOut ==
    (\E i \in DOMAIN mc_called' : i \notin DOMAIN mc_called /\ mc_called'[i].kind = "zeopp")
    => /\ mc_called = <<>>
       /\ mc_awaitables = {}
       /\ Len(mc_called') = Len(Comps)
       /\ Cardinality(mc_awaitables') = Len(Comps)
       /\ \A c \in CompSet :
            \E sub \in mc_awaitables' : sub.kind = "zeopp" /\ sub.label = ZeoppLabel(c)

\* C40: the screening phase of the multi-component workflow runs if and only
\* if a framework structure is given and zeopp_probe_scaling > 0; when it
\* runs, one Zeo++ calculation per component is submitted in the same step,
\* each under its label Zeopp_<component>, and the adsorption calculation is
\* submitted only after all of them have resolved successfully, a failed one
\* ending the run before any GCMC submission; when it is skipped, the
\* adsorption calculation has no block-pocket file and the final record has
\* no blocking-sphere keys.
C40_ScreeningFanOut ==
    /\ []ScreeningJoin
    /\ [][ScreeningFanOut]_vars

\* A run with screening in which both Zeo++ calculations were in flight at
\* once, both succeeded, and the adsorption calculation was then submitted
\* with the block pocket of the component that has blocking spheres.
C40_Witness ==
    /\ ScreeningDecided
    /\ ScreeningWanted
    /\ Len(mc_called) = Len(Comps) + 1
    /\ mc_called[Len(mc_called)].label = "RaspaGCMC_Ads"
    /\ mc_called[Len(mc_called)].block_pocket = {"co2"}
    /\ \A c \in CompSet : mc_ctx.zeopp[c].is_finished_ok

====
